---------------------------- MODULE Spec2Model ----------------------------
(***************************************************************************)
(* A model of exec-symbols: the closure-encoded primitives                 *)
(* (src/src/exec-symbols.ts, lines 1-271) and the RMAP relational mapping  *)
(* pipeline (src/unnamed/part_004).                                        *)
(*                                                                         *)
(* Church-encoded values are modelled by the data they carry:              *)
(*   - a Church list is a TLA+ sequence (nil is the empty sequence);       *)
(*   - a Church boolean is a TLA+ boolean;                                 *)
(*   - a selector-closure (Noun, FactSymbol, Event, FactType,              *)
(*     StateMachine, Constraint) is the record of its captured values;     *)
(*   - a host (JavaScript) primitive is a record [type, text], where type  *)
(*     is what `typeof` answers and text is what ToString answers, so that *)
(*     the number 1 and the string "1" are different values with the same  *)
(*     text;                                                               *)
(*   - a call that throws yields a value marked threw.                     *)
(*                                                                         *)
(* There are three specifications, one per part of the program:           *)
(*   SpecSM    make_transition / unguarded / StateMachine / run_machine    *)
(*   SpecVF    makeVerbFact                                                *)
(*   SpecRMAP  RMAP                                                        *)
(***************************************************************************)
EXTENDS Integers, Sequences, FiniteSets, Bags, TLC

VARIABLES
    machine,      \* SpecSM: the StateMachine(transition)(initial) under test
    stream,       \* SpecSM: the event stream handed to run_machine
    smPc,         \* SpecSM: "idle" | "applied" | "ran"
    smApply,      \* SpecSM: the last direct call transition(state)(input)
    smRun,        \* SpecSM: the outcome of run_machine(machine)(stream)
    vfFactType,   \* SpecVF: the FactType handed to makeVerbFact
    vfFn,         \* SpecVF: the value the caller currently holds
    vfSupplied,   \* SpecVF: the arguments the caller has supplied, in call order
    vfVerbCalls,  \* SpecVF: the argument lists the verb function was invoked with
    vfHeld,       \* SpecVF: a partial application the caller kept a reference to
    vfResults,    \* SpecVF: what each further call of the kept one returned
    rmFacts,      \* SpecRMAP: the facts argument
    rmPc,         \* SpecRMAP: "idle" | "returned" | "threw" | "rendered"
    rmArgs,       \* SpecRMAP: the constraints and subtypes arguments of the call
    rmOut,        \* SpecRMAP: what the call computed, pass by pass
    rmJson,       \* SpecRMAP: what toJSON made of the result
    fnArgs,       \* library calls: the function called (op) and its arguments
    fnPc,         \* library calls: "idle" | "returned"
    fnOut,        \* library calls: what the call returned
    adInv,        \* SpecAdapter: the invocations of the wrapped handlers
    adCalls,      \* SpecAdapter: the tracked service calls, in the order they started
    adClock,      \* what Date.now() answers next
    trLog,        \* SpecTrigger: the log of the trigger
    trFires,      \* SpecTrigger: the fire calls so far, in call order
    evLog,        \* SpecTracker: the eventLog of the tracker
    evCalls       \* SpecTracker: the track and getEvents calls so far

smVars == <<machine, stream, smPc, smApply, smRun>>
vfVars == <<vfFactType, vfFn, vfSupplied, vfVerbCalls, vfHeld, vfResults>>
rmVars == <<rmFacts, rmPc, rmArgs, rmOut, rmJson>>
fnVars == <<fnArgs, fnPc, fnOut>>
adVars == <<adInv, adCalls, adClock>>
trVars == <<trLog, trFires>>
evVars == <<evLog, evCalls>>
apiVars == <<adInv, adCalls, adClock, trLog, trFires, evLog, evCalls>>
vars == <<machine, stream, smPc, smApply, smRun,
          vfFactType, vfFn, vfSupplied, vfVerbCalls, vfHeld, vfResults,
          rmFacts, rmPc, rmArgs, rmOut, rmJson,
          fnArgs, fnPc, fnOut,
          adInv, adCalls, adClock, trLog, trFires, evLog, evCalls>>

(***************************************************************************)
(* Bounds of the model.                                                    *)
(***************************************************************************)
\* the longest event stream handed to run_machine
MaxStream == 3
\* the largest arity of a FactType handed to makeVerbFact
MaxArity == 4
\* the most calls of one kept partial application
MaxReuse == 3
\* the most invocations of wrapped handlers
MaxInvocations == 2
\* the most tracked service calls
MaxCalls == 2
\* the most fire calls on one trigger
MaxFires == 3
\* the most track and getEvents calls on one tracker
MaxTracks == 3
\* the largest number of facts handed to RMAP
MaxFacts == 2

\* longest list handed to a list function
MaxLen == 2

\* largest integer converted to a numeral
MaxNum == 4

SeqsUpTo(S, n) == UNION {[1..k -> S] : k \in 0..n}

(***************************************************************************)
(* Lambda calculus primitives.                                             *)
(***************************************************************************)
nil == <<>>

ISEMPTY(L) == L = nil

cons(head, tail) == <<head>> \o tail

\* IF(condition)(trueCase)(falseCase): both cases are values already
\* evaluated by the caller (JavaScript is strict); IF only selects.
IF_(condition, trueCase, falseCase) ==
    IF condition THEN trueCase ELSE falseCase

(***************************************************************************)
(* Values raised or returned by a call.                                    *)
(***************************************************************************)
Ok(v) == [threw |-> FALSE, val |-> v]

Threw == [threw |-> TRUE, val |-> 0]

(***************************************************************************)
(* Host values.  Str(s) is the string s, Num(s) the number whose decimal   *)
(* rendering is s: typeof tells them apart, JsToString does not.            *)
(***************************************************************************)
Str(s) == [type |-> "string", text |-> s]

Num(s) == [type |-> "number", text |-> s]

\* what nil answers when it is applied to one argument (a function value)
NilApplied == [type |-> "function", text |-> "nil(id => id)"]

typeof(v) == v.type

JsToString(v) == v.text

\* the number NaN
NaN == Num("NaN")

\* SameValueZero(a, b) on strings and numbers, the comparison of Set.has
\* and Array.includes: NaN is the same value as NaN
SameValueZero(a, b) == a.type = b.type /\ a.text = b.text

\* a == b on strings and numbers: a string is converted to the number it
\* reads as
LooseEquals(a, b) == a.text = b.text /\ a # NaN

\* a === b on strings and numbers: NaN is not equal to itself
StrictEquals(a, b) == a.type = b.type /\ a.text = b.text /\ a # NaN

(***************************************************************************)
(* Numerals.  A numeral is a closure; n is the number of times it applies  *)
(* its argument.  ZERO is one module-level closure; SUCC and ADD allocate  *)
(* a new closure at every call (ref = "fresh").                            *)
(***************************************************************************)
ZERO == [n |-> 0, ref |-> "ZERO"]

SUCC(m) == [n |-> m.n + 1, ref |-> "fresh"]

RECURSIVE UINT(_)
\* the conversion that starts counting at one
UINT_from_one(k) == IF k < 0 THEN ZERO ELSE SUCC(UINT(k - 1))

UINT(k) == IF k < 0 THEN ZERO ELSE IF k = 0 THEN ZERO ELSE SUCC(UINT(k - 1))

\* Truth values: TRUE = a => b => a and FALSE = a => b => b are the
\* Booleans; AND(p)(q) = p(q)(FALSE), NOT(p) = p(FALSE)(TRUE).
AND(p, q) == IF p THEN q ELSE FALSE

NOT(p) == IF p THEN FALSE ELSE TRUE

\* PRED(n) = f => x => n(g => h => h(g(f)))(u => x)(u => u): the container
\* starts as u => x; each of the n steps turns a container g into
\* h => h(g(f)); the identity finally opens it.  The first step adds no f
\* (g(f) is x), each later step adds one, so f is applied n - 1 times, and
\* no time at all when n is ZERO.
PRED(n) == [n |-> IF n.n = 0 THEN 0 ELSE n.n - 1, ref |-> "fresh"]

\* The functions numerals are applied to.  The value a function of (a)(b)
\* builds is counted by the number of times it applies a.
NumeralFn(g, x) ==
    CASE g.fn = "SUCC" -> SUCC(x)
      [] g.fn = "PRED" -> PRED(x)
      [] g.fn = "always_FALSE" -> FALSE
      \* n(a): applies a another n times
      [] g.fn = "apply_n" -> x + g.env.n
      \* m(h): h repeated m times
      [] g.fn = "repeat_m" -> x * g.env.n

\* n(g)(x): g applied n times to x
RECURSIVE Church(_, _, _)
Church(n, g, x) ==
    IF n.n = 0 THEN x
    ELSE NumeralFn(g, Church([n EXCEPT !.n = n.n - 1], g, x))

\* ADD(m)(n) = a => b => m(SUCC)(n)(a)(b)
ADD(m, n) ==
    [n |-> Church(m, [fn |-> "SUCC", env |-> nil], n).n, ref |-> "fresh"]

\* MULT(m)(n) = a => b => m(n(a))(b)
MULT(m, n) ==
    [n |-> Church(m, [fn |-> "apply_n", env |-> n], 0), ref |-> "fresh"]

\* the power with base and exponent exchanged
EXP_swapped(m, n) ==
    [n |-> Church(m, [fn |-> "repeat_m", env |-> n], 1), ref |-> "fresh"]

\* EXP(m)(n) = a => b => n(m)(a)(b): n(m)(a) is a repeated m^n times
EXP(m, n) ==
    [n |-> Church(n, [fn |-> "repeat_m", env |-> m], 1), ref |-> "fresh"]

\* SUB(m)(n) = n(PRED)(m)
SUB(m, n) == Church(n, [fn |-> "PRED", env |-> nil], m)

\* ISZERO(n) = n(_x => FALSE)(TRUE)
ISZERO(n) == Church(n, [fn |-> "always_FALSE", env |-> nil], TRUE)

LE(m, n) == ISZERO(SUB(m, n))

GE(m, n) == ISZERO(SUB(n, m))

\* the comparison that negates LE where the code negates GE
LT_by_LE(m, n) == NOT(LE(m, n))

LT(m, n) == NOT(GE(m, n))

GT(m, n) == NOT(LE(m, n))

EQ(m, n) == AND(LE(m, n), LE(n, m))

\* a === b on two numerals obtained from two separate evaluations: equal
\* only when both are the one ZERO closure, since any other numeral is a
\* closure allocated by the evaluation that produced it.
NumeralStrictEquals(a, b) == a.ref = "ZERO" /\ b.ref = "ZERO"

(***************************************************************************)
(* Nouns (entities) and facts.                                             *)
(***************************************************************************)
unit(id) == [type |-> "function", id |-> id]

IsNoun(e) == e # nil /\ e.type = "function" /\ "id" \in DOMAIN e

\* get_id(e) = e(id => id).  Applied to nil it answers nil's partial
\* application; applied to a string or a number it throws (modelled by
\* the callers, which test CanCall first).
get_id(e) == IF e = nil THEN NilApplied ELSE e.id

\* whether v can be called as a function
CanCall(v) == v = nil \/ v.type = "function"

\* the comparison with == in the place of ===
equals_loose(a, b) == LooseEquals(get_id(a), get_id(b))

\* equals(a)(b) = get_id(a) === get_id(b) ? TRUE : FALSE
equals(a, b) == IF StrictEquals(get_id(a), get_id(b)) THEN TRUE ELSE FALSE

FactSymbol(verb, nouns) == [verb |-> verb, nouns |-> nouns]

\* get_verb_symbol(f) = f(v => _n => v(a => a)): the verb is called as a
\* function, which throws when the verb is a string.
get_verb_symbol(f) == IF CanCall(f.verb) THEN Ok(get_id(f.verb)) ELSE Threw

get_nouns(f) == f.nouns

(***************************************************************************)
(* Events.                                                                 *)
(***************************************************************************)
Event(fact, time) == [fact |-> fact, time |-> time]

get_fact(e) == e.fact

get_time(e) == e.time

(***************************************************************************)
(* State machine.  States and inputs are opaque to the engine; the model   *)
(* takes them from two small sets and lets guard and compute_next range    *)
(* over every function on them.  compute_next may throw.                   *)
(***************************************************************************)
StateDom == 0..1

InputDom == 0..1

GuardFns == [StateDom \X InputDom -> BOOLEAN]

ComputeFns ==
    [StateDom \X InputDom -> {Ok(v) : v \in StateDom} \cup {Threw}]

\* make_transition(guard)(compute_next)(state)(input) =
\*   IF(guard(state)(input))(compute_next(state)(input))(state)
\* The three arguments of IF are evaluated before IF selects, so a
\* compute_next that throws makes the call throw whatever the guard says.
make_transition(guard, compute_next, state, input) ==
    LET condition == guard[state, input]
        trueCase  == compute_next[state, input]
    IN  IF trueCase.threw THEN Threw
        ELSE IF_(condition, trueCase, Ok(state))

\* the guard unguarded passes to make_transition
unguarded_guard == [x \in StateDom \X InputDom |-> TRUE]

unguarded(compute_next, state, input) ==
    make_transition(unguarded_guard, compute_next, state, input)

\* A transition value is make_transition applied to (guard, compute_next):
\* the closure holding both.
Transitions == [guard : GuardFns, compute_next : ComputeFns]

StateMachine(transition, initial) ==
    [transition |-> transition, initial |-> initial]

\* The function run_machine folds over the stream:
\*   event => state => transition(state)(get_fact(event))
\* The accumulator also records, in `applied`, the times of the events
\* the transition was applied to, in the order of application.  When the
\* inner recursive call threw, this function is never called.
run_machine_step(transition, event, acc) ==
    IF acc.threw THEN acc
    ELSE LET next == make_transition(transition.guard, transition.compute_next,
                                     acc.val, get_fact(event))
         IN  [threw   |-> next.threw,
              val     |-> next.val,
              applied |-> Append(acc.applied, get_time(event))]

\* nth(n)(list): the recursion walks the list from index ZERO; on a cons
\* cell both branches of the inner IF are evaluated, so it always walks to
\* the end of the list.
RECURSIVE nth_rec(_, _, _)
nth_rec(targetN, currentList, currentIndex) ==
    IF ISEMPTY(currentList) THEN nil
    ELSE IF_(EQ(currentIndex, targetN),
             Head(currentList),
             nth_rec(targetN, Tail(currentList), SUCC(currentIndex)))

\* the lookup that counts positions from one
nth_one_based(n, L) == nth_rec(n, L, SUCC(ZERO))

nth(n, L) == nth_rec(n, L, ZERO)

(***************************************************************************)
(* Closures handed to fold.  A closure is the record of the function it    *)
(* stands for (fn) and of the values it captured (env); Apply2 is its      *)
(* application to (head, acc).                                             *)
(***************************************************************************)
Closure(fn, env) == [fn |-> fn, env |-> env]

\* A JavaScript Set of host values: its members in insertion order.
SetHas(set, v) == \E i \in 1..Len(set) : SameValueZero(set[i], v)

SetAdd(set, v) == IF SetHas(set, v) THEN set ELSE Append(set, v)

\* isUnary's counter: (n) => (acc) => ADD(acc)(UINT(1))
count_noun(noun, acc) == ADD(acc, UINT(1))

\* groupFunctionalRoles: (noun) => () => { objectTypes.add(get_id(noun)) }
\* The Set the function writes to is threaded through the accumulator.
objectTypes_add(noun, objectTypes) == SetAdd(objectTypes, get_id(noun))

\* groupFunctionalRoles:
\*   (noun) => () => { if (get_id(noun) === objectType) hasObjectType = true }
hasObjectType_set(objectType, noun, hasObjectType) ==
    hasObjectType \/ StrictEquals(get_id(noun), objectType)

\* mapIndependentObjects:
\*   (noun) => () => { if (!objectsWithRoles.has(id)) independentObjects.add(id) }
independentObjects_add(objectsWithRoles, noun, independentObjects) ==
    IF ~SetHas(objectsWithRoles, get_id(noun))
    THEN SetAdd(independentObjects, get_id(noun))
    ELSE independentObjects

\* reorder's function: (i) => nth(i)(nouns)
nth_of(nouns, i) == nth(i, nouns)

\* a function value applied to one argument
Apply1(g, x) ==
    CASE g.fn = "nth_of" -> nth_of(g.env, x)

\* the callback that leaves out a nil result
map_step_skipping(g, x, acc) ==
    IF Apply1(g, x) = nil THEN acc ELSE cons(Apply1(g, x), acc)

\* map's callback: (x) => (acc) => cons(f(x))(acc)
map_step(g, x, acc) == cons(Apply1(g, x), acc)

\* a callback the caller supplies, kept symbolic: its value on (head, acc)
\* is the term f(head)(acc)
callback(head, acc) == [fn |-> "f", head |-> head, acc |-> acc]

\* serialize: (noun) => () => { tempNouns.push(get_id(noun)) }; the array
\* the function writes to is threaded through the accumulator.
tempNouns_push(noun, tempNouns) ==
    IF typeof(noun) = "function"
    THEN Append(tempNouns, get_id(noun))
    ELSE Append(tempNouns, noun)

\* the callback of toJSON's fold: decodedNouns.push(decodeValue(noun)),
\* where decodeValue of a noun is what get_id answers
decodedNouns_push(noun, decodedNouns) == Append(decodedNouns, get_id(noun))

Apply2(f, head, acc) ==
    CASE f.fn = "cons" -> cons(head, acc)
      [] f.fn = "callback" -> callback(head, acc)
      [] f.fn = "map_step" -> map_step(f.env, head, acc)
      [] f.fn = "run_machine_step" -> run_machine_step(f.env, head, acc)
      [] f.fn = "count_noun" -> count_noun(head, acc)
      [] f.fn = "objectTypes_add" -> objectTypes_add(head, acc)
      [] f.fn = "hasObjectType_set" -> hasObjectType_set(f.env, head, acc)
      [] f.fn = "independentObjects_add" -> independentObjects_add(f.env, head, acc)
      [] f.fn = "tempNouns_push" -> tempNouns_push(head, acc)
      [] f.fn = "decodedNouns_push" -> decodedNouns_push(head, acc)

\* fold(f)(acc)(list) =
\*   IF(ISEMPTY(list))(acc)(list(head => tail => f(head)(recFold(f)(acc)(tail))))
\* On nil the third argument is nil applied to the selector, which calls
\* nothing; on a cons cell the recursive call on the tail is evaluated
\* first (it is an argument of f(head)).
\* the fold that consumes the list from its head, accumulating leftwards
RECURSIVE fold_left(_, _, _)
fold_left(f, acc, L) ==
    IF ISEMPTY(L) THEN acc
    ELSE fold_left(f, Apply2(f, Head(L), acc), Tail(L))

RECURSIVE fold(_, _, _)
fold(f, acc, L) ==
    IF ISEMPTY(L) THEN acc
    ELSE Apply2(f, Head(L), fold(f, acc, Tail(L)))

\* append that moves the elements of l1 one by one onto the front of l2
RECURSIVE append_reversing(_, _)
append_reversing(l1, l2) ==
    IF ISEMPTY(l1) THEN l2
    ELSE append_reversing(Tail(l1), cons(Head(l1), l2))

\* append with the new argument put in front instead of at the end
append_prepending(l1, l2) == fold(Closure("cons", nil), l1, l2)

append(l1, l2) == fold(Closure("cons", nil), l2, l1)

map(g, L) == fold(Closure("map_step", g), nil, L)

reorder(nouns, order) == map(Closure("nth_of", nouns), order)

(***************************************************************************)
(* Fact types and curried fact construction.                               *)
(***************************************************************************)
FactType(arity, verbFn) == [arity |-> arity, verb |-> verbFn]

get_arity(factType) == factType.arity

get_verb(factType) == factType.verb

\* The function makeVerbFact takes the fixed point of:
\*   curry => args => n =>
\*     n === 0 ? get_verb(FactType)(args)
\*             : arg => curry(append(args)(cons(arg)(nil)))(n - 1)
\* curry(args, n) is either a call of the verb function with args
\* (kind "invoked": the caller holds what the verb returned) or a new
\* function holding args and n (kind "curried").
curry(args, n) ==
    IF n = 0 THEN [kind |-> "invoked", args |-> args, n |-> 0]
    ELSE [kind |-> "curried", args |-> args, n |-> n]

\* a curried function applied to arg
curry_arg(fn, arg) == curry(append(fn.args, cons(arg, nil)), fn.n - 1)

\* a function that adds the argument to the list it holds
curry_pushing(fn, arg) == [fn EXCEPT !.args = append(fn.args, cons(arg, nil))]

\* the curried function itself after it was applied to arg: args and n are
\* parameters that are never assigned, and append builds a new list
curry_kept(fn, arg) == fn

makeVerbFact(factType) == curry(nil, get_arity(factType))

\* run_machine(machine)(stream) =
\*   machine(transition => initial => fold(step)(initial)(stream))
run_machine(m, s) ==
    fold(Closure("run_machine_step", m.transition),
         [threw |-> FALSE, val |-> m.initial, applied |-> <<>>],
         s)

(***************************************************************************)
(* Constraints.                                                            *)
(***************************************************************************)
ALETHIC == "alethic"

DEONTIC == "deontic"

Constraint(modality, predicate) == [modality |-> modality, predicate |-> predicate]

get_modality(c) == c.modality

(***************************************************************************)
(* A JavaScript object used as a map: its own properties, as [key, value]  *)
(* records in the order Object.entries lists them.                         *)
(***************************************************************************)
\* keys that are canonical array indices; the model's texts contain one
IsIntegerKey(key) == key \in {"0", "1", "2", "3", "4", "5", "6", "7", "8", "9"}

ObjHas(obj, key) == \E i \in 1..Len(obj) : obj[i].key = key

\* obj[key] = value.  Assigning to "__proto__" changes the prototype and
\* creates no own property.
ObjSet(obj, key, value) ==
    IF key = "__proto__" THEN obj
    ELSE IF ObjHas(obj, key)
         THEN [i \in 1..Len(obj) |->
                  IF obj[i].key = key THEN [key |-> key, value |-> value] ELSE obj[i]]
         ELSE Append(obj, [key |-> key, value |-> value])

\* Object.entries(obj): integer keys first, then the other keys in the
\* order of their creation.
ObjEntries(obj) ==
    LET IsInt(e) == IsIntegerKey(e.key)
        NotInt(e) == ~IsIntegerKey(e.key)
    IN  SelectSeq(obj, IsInt) \o SelectSeq(obj, NotInt)

(***************************************************************************)
(* RMAP.  A fact handed to RMAP is the record of its verb and nouns plus   *)
(* ref, which stands for the identity of the fact object (two facts with   *)
(* the same verb and nouns are still two objects).                         *)
(***************************************************************************)
\* const verbSymbol = get_verb_symbol(fact)
\* const verb = typeof verbSymbol === 'string' ? verbSymbol : get_id(verbSymbol)
fact_verb(fact) ==
    LET verbSymbol == get_verb_symbol(fact)
    IN  IF verbSymbol.threw THEN Threw
        ELSE IF typeof(verbSymbol.val) = "string" THEN verbSymbol
        ELSE IF CanCall(verbSymbol.val) THEN Ok(get_id(verbSymbol.val))
        ELSE Threw

\* Step 0.1: isUnary compares the counted numeral with UINT(1) by ===
isUnary(fact) ==
    NumeralStrictEquals(
        fold(Closure("count_noun", nil), UINT(0), get_nouns(fact)),
        UINT(1))

transformUnaries(facts) ==
    LET notUnary(fact) == ~isUnary(fact)
        unaries == SelectSeq(facts, isUnary)
        rest == SelectSeq(facts, notUnary)
    IN  IF \E i \in 1..Len(unaries) : get_verb_symbol(unaries[i]).threw
        THEN [threw |-> TRUE, unaries |-> <<>>, remaining |-> <<>>]
        ELSE [threw |-> FALSE,
              unaries |-> [i \in 1..Len(unaries) |->
                              [original |-> unaries[i],
                               transformed |-> unaries[i],
                               semantics |-> "open-world"]],
              remaining |-> rest]

\* the vocabulary with one predicate missing
referencePredicates_short == {"identifies", "references"}

referencePredicates == {"identifies", "references", "refers_to"}

\* Step 0.2: isReference = referencePredicates.includes(verb)
isReference(fact) ==
    LET verb == fact_verb(fact).val
    IN  typeof(verb) = "string" /\ verb.text \in referencePredicates

\* the black box recorded for an erased reference fact
blackBox(fact) == get_id(nth(UINT(0), get_nouns(fact)))

\* the pass that records the black boxes and removes nothing
eraseReferences_keeping(facts) ==
    IF \E i \in 1..Len(facts) : fact_verb(facts[i]).threw
    THEN [threw |-> TRUE, blackBoxes |-> <<>>, factsWithoutReferences |-> <<>>]
    ELSE LET references == SelectSeq(facts, isReference)
         IN  [threw |-> FALSE,
              blackBoxes |-> [i \in 1..Len(references) |-> blackBox(references[i])],
              factsWithoutReferences |-> facts]

eraseReferences(facts) ==
    LET notReference(fact) == ~isReference(fact)
    IN  IF \E i \in 1..Len(facts) : fact_verb(facts[i]).threw
        THEN [threw |-> TRUE, blackBoxes |-> <<>>, factsWithoutReferences |-> <<>>]
        ELSE LET references == SelectSeq(facts, isReference)
             IN  [threw |-> FALSE,
                  blackBoxes |-> [i \in 1..Len(references) |-> blackBox(references[i])],
                  factsWithoutReferences |-> SelectSeq(facts, notReference)]

\* the loop marks the verb "has" when it meets an alethic constraint
constraintsByVerb_linked(constraints) ==
    LET alethic == \E i \in 1..Len(constraints) : get_modality(constraints[i]) = ALETHIC
    IN  [verb \in (IF alethic THEN {"has"} ELSE {}) |-> [hasCompoundConstraint |-> TRUE]]

\* Step 1: the loop over the constraints reads each modality and records
\* nothing, so constraintsByVerb stays the empty map.
constraintsByVerb(constraints) ==
    LET modalities == [i \in 1..Len(constraints) |-> get_modality(constraints[i])]
    IN  [verb \in {} |-> [hasCompoundConstraint |-> modalities # modalities]]

\* constraintsByVerb[verb]?.hasCompoundConstraint
hasCompoundConstraint(byVerb, fact) ==
    LET verb == JsToString(fact_verb(fact).val)
    IN  verb \in DOMAIN byVerb /\ byVerb[verb].hasCompoundConstraint

mapCompoundConstraints(facts, constraints) ==
    LET byVerb == constraintsByVerb(constraints)
        separate(fact) == hasCompoundConstraint(byVerb, fact)
        stays(fact) == ~hasCompoundConstraint(byVerb, fact)
        separated == SelectSeq(facts, separate)
        \* one table per verb, created at the verb's first fact
        firstOfVerb(i) ==
            \A j \in 1..(i - 1) : fact_verb(separated[j]).val # fact_verb(separated[i]).val
        firsts == {i \in 1..Len(separated) : firstOfVerb(i)}
        nthFirst(k) == CHOOSE i \in firsts : Cardinality({j \in firsts : j < i}) = k - 1
    IN  [tables |-> [k \in 1..Cardinality(firsts) |->
                        [name |-> fact_verb(separated[nthFirst(k)]).val,
                         columns |-> <<>>,
                         rows |-> <<>>]],
         remainingFacts |-> SelectSeq(facts, stays)]

\* Step 2.1, first loop: the Set of every noun identifier of the facts
RECURSIVE collectObjectTypes(_, _)
collectObjectTypes(facts, objectTypes) ==
    IF facts = <<>> THEN objectTypes
    ELSE collectObjectTypes(
             Tail(facts),
             fold(Closure("objectTypes_add", nil), objectTypes, get_nouns(Head(facts))))

\* the facts one of whose nouns has the identifier objectType
relatedFacts(facts, objectType) ==
    LET mentions(fact) ==
            fold(Closure("hasObjectType_set", objectType), FALSE, get_nouns(fact))
    IN  SelectSeq(facts, mentions)

\* Step 2.1, second loop: groupedFacts[objectType] = relatedFacts
RECURSIVE groupFacts(_, _, _)
groupFacts(objectTypes, facts, groupedFacts) ==
    IF objectTypes = <<>> THEN groupedFacts
    ELSE groupFacts(
             Tail(objectTypes),
             facts,
             ObjSet(groupedFacts, JsToString(Head(objectTypes)),
                    relatedFacts(facts, Head(objectTypes))))

groupFunctionalRoles(facts) ==
    LET objectTypes == collectObjectTypes(facts, <<>>)
        entries == ObjEntries(groupFacts(objectTypes, facts, <<>>))
    IN  [objectTables |-> [i \in 1..Len(entries) |->
                              [name |-> Str(entries[i].key),
                               key |-> Str(entries[i].key \o "_id"),
                               functionalRoles |-> entries[i].value,
                               columns |-> <<[name |-> Str("id"), type |-> "string"]>>]]]

\* Step 3, the loop: the Set of the noun identifiers that name no table
RECURSIVE collectIndependent(_, _, _)
collectIndependent(facts, objectsWithRoles, independentObjects) ==
    IF facts = <<>> THEN independentObjects
    ELSE collectIndependent(
             Tail(facts),
             objectsWithRoles,
             fold(Closure("independentObjects_add", objectsWithRoles),
                  independentObjects, get_nouns(Head(facts))))

\* new Set(existingTables.map((t) => t.name))
RECURSIVE tableNames(_)
tableNames(tables) ==
    IF tables = <<>> THEN <<>>
    ELSE LET front == tableNames(SubSeq(tables, 1, Len(tables) - 1))
         IN  SetAdd(front, tables[Len(tables)].name)

\* the pass that emits no table
mapIndependentObjects_none(facts, existingTables) == [independentTables |-> <<>>]

mapIndependentObjects(facts, existingTables) ==
    LET objectsWithRoles == tableNames(existingTables)
        independentObjects == collectIndependent(facts, objectsWithRoles, <<>>)
    IN  [independentTables |-> [i \in 1..Len(independentObjects) |->
            [name |-> independentObjects[i],
             key |-> Str(JsToString(independentObjects[i]) \o "_id"),
             columns |-> <<[name |-> Str("id"), type |-> "string"],
                           [name |-> Str("created_at"), type |-> "date"]>>]]]

\* Step 4: a column whose name is a black box becomes `<name>_id`
\* the callback that returns every column as it is
unpackColumn_keeping(col, blackBoxes) == col

unpackColumn(col, blackBoxes) ==
    IF SetHas(blackBoxes, col.name)
    THEN [name |-> Str(JsToString(col.name) \o "_id"), type |-> "string"]
    ELSE col

unpackBlackBoxes(tables, blackBoxes) ==
    [tables |-> [i \in 1..Len(tables) |->
        [tables[i] EXCEPT !.columns =
            [c \in 1..Len(tables[i].columns) |->
                unpackColumn(tables[i].columns[c], blackBoxes)]]]]

\* Step 5: every table is returned as it is
handleSubtypeConstraints(tables, constraints, subtypes) ==
    [finalTables |-> [i \in 1..Len(tables) |-> tables[i]]]

RaisedResult ==
    [threw |-> TRUE, unaries |-> <<>>, remaining |-> <<>>, blackBoxes |-> <<>>,
     factsWithoutReferences |-> <<>>, factTables |-> <<>>, remainingFacts |-> <<>>,
     objectTables |-> <<>>, independentTables |-> <<>>,
     schema |-> [tables |-> <<>>, relationships |-> <<>>, indices |-> <<>>],
     transformedFacts |-> <<>>]

\* The full pipeline.  Besides the returned schema and transformedFacts the
\* record keeps what each pass handed to the next one.
pipeline(facts, constraints, subtypes) ==
    LET step01 == transformUnaries(facts)
        step02 == eraseReferences(step01.remaining)
        step1  == mapCompoundConstraints(step02.factsWithoutReferences, constraints)
        step21 == groupFunctionalRoles(step1.remainingFacts)
        step3  == mapIndependentObjects(step1.remainingFacts,
                                        step1.tables \o step21.objectTables)
        allTables == step1.tables \o step21.objectTables \o step3.independentTables
        step4  == unpackBlackBoxes(allTables, step02.blackBoxes)
        step5  == handleSubtypeConstraints(step4.tables, constraints, subtypes)
    IN  IF step01.threw THEN RaisedResult
        ELSE IF step02.threw THEN RaisedResult
        ELSE [threw |-> FALSE,
              unaries |-> step01.unaries,
              remaining |-> step01.remaining,
              blackBoxes |-> step02.blackBoxes,
              factsWithoutReferences |-> step02.factsWithoutReferences,
              factTables |-> step1.tables,
              remainingFacts |-> step1.remainingFacts,
              objectTables |-> step21.objectTables,
              independentTables |-> step3.independentTables,
              schema |-> [tables |-> step5.finalTables,
                          relationships |-> <<>>,
                          indices |-> <<>>],
              transformedFacts |->
                  [i \in 1..Len(step01.unaries) |-> step01.unaries[i].transformed]
                  \o step02.factsWithoutReferences]

RMAP(facts, constraints, subtypes) == pipeline(facts, constraints, subtypes)

(***************************************************************************)
(* Serialization of facts.                                                 *)
(***************************************************************************)
\* Array.prototype.reverse
reverse(a) == [i \in 1..Len(a) |-> a[Len(a) + 1 - i]]

\* get_id applied to a fact: fact(id => id) is verb(nouns), and an entity
\* verb answers nouns(id).  nil answers a function; a cons cell calls the
\* identifier with its head, which throws for a string or a number.
get_id_of_fact(value) ==
    IF ~CanCall(value.verb) THEN Threw
    ELSE IF ISEMPTY(value.nouns) THEN Ok(NilApplied)
    ELSE Threw

\* the nouns array serialize builds: the fold pushes the identifiers, last
\* noun first, and a non-empty array is reversed
serialize_nouns(nounsObj) ==
    LET tempNouns == fold(Closure("tempNouns_push", nil), <<>>, nounsObj)
    IN  IF Len(tempNouns) > 0 THEN reverse(tempNouns) ELSE <<>>

\* serialize(value) for a fact: the probes are tried in the order Noun,
\* FactSymbol, Constraint.  get_modality(fact) is the fact's verb, a
\* function, so a fact that was not returned as a FactSymbol is returned as
\* an alethic Constraint.
serialize(value) ==
    LET id == get_id_of_fact(value)
        verbSymbol == get_verb_symbol(value)
        nouns == serialize_nouns(get_nouns(value))
    IN  IF ~id.threw /\ typeof(id.val) # "function" THEN id.val
        ELSE IF ~verbSymbol.threw /\ Len(nouns) > 0
             THEN [type |-> Str("FactSymbol"),
                   verb_symbol |-> verbSymbol.val,
                   nouns |-> nouns]
        ELSE [type |-> Str("Constraint"), modality |-> Str(ALETHIC)]

\* JSON.stringify on a plain value: a string becomes a quoted text, a
\* number its decimal text, and NaN the text null
JSON_stringify_value(v) ==
    IF v = NaN THEN [json |-> "null", text |-> "null"]
    ELSE IF typeof(v) = "string" THEN [json |-> "string", text |-> v.text]
    ELSE [json |-> "number", text |-> v.text]

\* JSON.parse on one value of a JSON text
JSON_parse_value(t) ==
    IF t.json = "null" THEN [type |-> "null", text |-> "null"]
    ELSE IF t.json = "string" THEN Str(t.text)
    ELSE Num(t.text)

\* toJSON(value) = JSON.stringify(serialize(value)), for a serialized fact
toJSON(value) ==
    LET plain == serialize(value)
    IN  [key \in DOMAIN plain |->
            IF key = "nouns"
            THEN [i \in 1..Len(plain.nouns) |-> JSON_stringify_value(plain.nouns[i])]
            ELSE JSON_stringify_value(plain[key])]

\* fromJSON(json) = JSON.parse(json)
fromJSON(json) ==
    [key \in DOMAIN json |->
        IF key = "nouns"
        THEN [i \in 1..Len(json.nouns) |-> JSON_parse_value(json.nouns[i])]
        ELSE JSON_parse_value(json[key])]

\* decodeValue(value) of RMAP's toJSON, for a fact.  The get_id probe comes
\* first and whatever it answers without throwing is returned; then verb
\* and nouns are read, the fold pushing the decoded nouns last noun first;
\* a value neither probe accepts is rendered as the text [Function].
decodeValue(value) ==
    LET id == get_id_of_fact(value)
        verb == get_verb_symbol(value)
        decodedNouns == fold(Closure("decodedNouns_push", nil), <<>>, get_nouns(value))
    IN  IF ~id.threw THEN id.val
        ELSE IF ~verb.threw THEN [verb |-> verb.val, nouns |-> decodedNouns]
        ELSE Str("[Function]")

\* toJSON(rmapResult) of the RMAP module
RMAP_toJSON(rmapResult) ==
    [schema |->
        [tables |-> [t \in 1..Len(rmapResult.schema.tables) |->
            LET table == rmapResult.schema.tables[t]
            IN  [name |-> table.name,
                 key |-> table.key,
                 columns |-> [c \in 1..Len(table.columns) |->
                                 [name |-> table.columns[c].name,
                                  type |-> table.columns[c].type]],
                 rows |-> <<>>]],
         relationships |-> <<>>,
         indices |-> <<>>],
     transformedFacts |-> [i \in 1..Len(rmapResult.transformedFacts) |->
                              decodeValue(rmapResult.transformedFacts[i])]]

(***************************************************************************)
(* Tracked services and the handler adapter.  The arguments of a service   *)
(* call are an object: the sequence of its entries.  A log is the array    *)
(* the record function pushes to.                                          *)
(***************************************************************************)
Null == [type |-> "null", text |-> "null"]

\* an object without a prototype, such as Object.create(null)
NullProtoObject == [type |-> "object", text |-> "no prototype"]

\* String(v): an object without toString and valueOf cannot be converted
JsString(v) == IF v = NullProtoObject THEN Threw ELSE Ok(JsToString(v))

\* Object.entries(args).map(([k, v]) => unit(`${k}:${String(v)}`))
argNouns(args) ==
    LET texts == [k \in 1..Len(args) |-> JsString(args[k].value)]
    IN  IF \E k \in 1..Len(args) : texts[k].threw THEN Threw
        ELSE Ok([k \in 1..Len(args) |->
                    unit(Str(args[k].key \o ":" \o texts[k].val))])

\* emitCallFact(domain, method, args): the verb is the plain string
\* `${domain}.${method}`
emitCallFact(domain, method, args) ==
    LET nouns == argNouns(args)
    IN  IF nouns.threw THEN Threw
        ELSE Ok(FactSymbol(Str(domain \o "." \o method), nouns.val))

\* the function wrapTrackedService puts in the place of a method, up to
\* the call of the underlying function: the fact is built, the event is
\* recorded, then fn(args) is called.  `seen` is the length of the log at
\* the moment fn is called.
tracked_call(domain, method, args, log, now) ==
    LET fact == emitCallFact(domain, method, args)
    IN  IF fact.threw
        THEN [threw |-> TRUE, log |-> log, fnInvoked |-> FALSE, seen |-> 0]
        ELSE LET recorded == Append(log, Event(fact.val, now))
             IN  [threw |-> FALSE, log |-> recorded, fnInvoked |-> TRUE,
                  seen |-> Len(recorded)]

\* a compute function that answers its input
identity_compute_input(state, input) == input

\* (state) => (_) => state
identity_compute(state, input) == state

\* make_transition(() => () => TRUE)((state) => (_) => state), on the
\* states and the facts of a log
identityTransition(log) ==
    LET facts == {get_fact(log[k]) : k \in 1..Len(log)}
        states == {Null} \cup facts
    IN  [guard |-> [x \in states \X facts |-> TRUE],
         compute_next |-> [x \in states \X facts |->
                              Ok(identity_compute(x[1], x[2]))]]

\* the wrapped handler up to the call of the original handler: a new log,
\* the trigger event recorded, the machine run over the log
execSymbolsAdapter(trigger, now) ==
    LET triggerFact == FactSymbol(Str(trigger), <<unit(Str("event"))>>)
        triggerEvent == Event(triggerFact, now)
        log == <<triggerEvent>>
        identityMachine == StateMachine(identityTransition(log), Null)
        state == run_machine(identityMachine, log)
    IN  [threw |-> state.threw, state |-> state.val, log |-> log]

(***************************************************************************)
(* Triggers and event trackers.                                            *)
(***************************************************************************)
\* the synchronous part of a fire that records whatever the condition says
fire_unconditional(name, held, log, now) ==
    LET triggerFact == FactSymbol(Str("trigger." \o name), <<unit(Str("event"))>>)
        recorded == Append(log, Event(triggerFact, now))
    IN  [log |-> recorded, actionInvoked |-> held, seen |-> Len(recorded),
         returned |-> Ok([triggered |-> FALSE, reason |-> "Condition not met"])]

\* fire(event) of createTriggerImpl up to the call of the action: when the
\* condition held the trigger event is recorded and the wrapped action is
\* called, which calls the action; otherwise the call returns at once.
\* `seen` is the length of the log at the moment the action is called.
fire(name, held, log, now) ==
    LET triggerFact == FactSymbol(Str("trigger." \o name), <<unit(Str("event"))>>)
        recorded == Append(log, Event(triggerFact, now))
    IN  IF held
        THEN [log |-> recorded, actionInvoked |-> TRUE, seen |-> Len(recorded),
              returned |-> Threw]
        ELSE [log |-> log, actionInvoked |-> FALSE, seen |-> 0,
              returned |-> Ok([triggered |-> FALSE, reason |-> "Condition not met"])]

\* track(eventName, data) of createEventTrackerImpl: the fact (verb the
\* plain string eventName) is built, and the event is pushed
track(eventName, data, eventLog, now) ==
    LET nouns == argNouns(data)
    IN  IF nouns.threw THEN [threw |-> TRUE, eventLog |-> eventLog]
        ELSE [threw |-> FALSE,
              eventLog |-> Append(eventLog,
                                  Event(FactSymbol(eventName, nouns.val), now))]

\* undefined, the eventName of getEvents()
Undefined == [type |-> "undefined", text |-> "undefined"]

\* if (eventName): undefined and the empty string are falsy
Truthy(v) == v # Undefined /\ v # Str("")

\* getEvents(eventName): with a name the log is filtered by
\* get_verb_symbol(get_fact(e)) === eventName, and the filter stops at the
\* first event for which get_verb_symbol throws
getEvents(eventName, eventLog) ==
    LET keep(e) == /\ ~get_verb_symbol(get_fact(e)).threw
                   /\ StrictEquals(get_verb_symbol(get_fact(e)).val, eventName)
    IN  IF Truthy(eventName)
        THEN IF \E k \in 1..Len(eventLog) : get_verb_symbol(get_fact(eventLog[k])).threw
             THEN Threw
             ELSE Ok(SelectSeq(eventLog, keep))
        ELSE Ok(eventLog)

(***************************************************************************)
(* SpecSM: a machine and a stream are given; the embedder either applies   *)
(* the machine's transition to a state and an input, or runs the machine   *)
(* over the stream.                                                        *)
(***************************************************************************)
\* Event streams: the k-th event of a stream carries time k.
Streams ==
    {[k \in 1..Len(fs) |-> Event(fs[k], k)] : fs \in SeqsUpTo(InputDom, MaxStream)}

NoApply == [called |-> FALSE, state |-> 0, input |-> 0, out |-> Ok(0)]

NoRun == [called |-> FALSE, threw |-> FALSE, val |-> 0, applied |-> <<>>]

smIdle ==
    /\ machine = StateMachine([guard |-> unguarded_guard,
                               compute_next |-> [x \in StateDom \X InputDom |-> Ok(0)]], 0)
    /\ stream = <<>>
    /\ smPc = "idle"
    /\ smApply = NoApply
    /\ smRun = NoRun

\* no partial application kept
NoHeld == [kept |-> FALSE, fn |-> [kind |-> "none", args |-> <<>>, n |-> 0],
           supplied |-> <<>>]

vfIdle ==
    /\ vfFactType = [arity |-> 0, verb |-> "none"]
    /\ vfFn = [kind |-> "none", args |-> <<>>, n |-> 0]
    /\ vfSupplied = <<>>
    /\ vfVerbCalls = <<>>
    /\ vfHeld = NoHeld
    /\ vfResults = <<>>

rmIdle ==
    /\ rmFacts = <<>>
    /\ rmPc = "idle"
    /\ rmArgs = <<>>
    /\ rmOut = <<>>
    /\ rmJson = <<>>

fnIdle ==
    /\ fnArgs = <<>>
    /\ fnPc = "idle"
    /\ fnOut = <<>>

apiIdle ==
    /\ adInv = <<>>
    /\ adCalls = <<>>
    /\ adClock = 0
    /\ trLog = <<>>
    /\ trFires = <<>>
    /\ evLog = <<>>
    /\ evCalls = <<>>

InitSM ==
    /\ machine \in {StateMachine(t, s0) : t \in Transitions, s0 \in StateDom}
    /\ stream \in Streams
    /\ smPc = "idle"
    /\ smApply = NoApply
    /\ smRun = NoRun
    /\ vfIdle
    /\ rmIdle
    /\ fnIdle
    /\ apiIdle

\* transition(state)(input), called directly
ApplyTransition(state, input) ==
    /\ smPc = "idle"
    /\ smPc' = "applied"
    /\ smApply' = [called |-> TRUE, state |-> state, input |-> input,
                   out |-> make_transition(machine.transition.guard,
                                           machine.transition.compute_next,
                                           state, input)]
    /\ UNCHANGED <<machine, stream, smRun>>
    /\ UNCHANGED vfVars
    /\ UNCHANGED rmVars
    /\ UNCHANGED fnVars
    /\ UNCHANGED apiVars

\* run_machine(machine)(stream)
RunMachine ==
    /\ smPc = "idle"
    /\ smPc' = "ran"
    /\ smRun' = [called |-> TRUE] @@ run_machine(machine, stream)
    /\ UNCHANGED <<machine, stream, smApply>>
    /\ UNCHANGED vfVars
    /\ UNCHANGED rmVars
    /\ UNCHANGED fnVars
    /\ UNCHANGED apiVars

NextSM ==
    \/ \E state \in StateDom, input \in InputDom : ApplyTransition(state, input)
    \/ RunMachine

SpecSM == InitSM /\ [][NextSM]_vars

(***************************************************************************)
(* SpecVF: a FactType is given; the caller makes its curried function and  *)
(* supplies arguments one per call for as long as it holds a function.     *)
(***************************************************************************)
\* the arguments the caller supplies
VerbArgs == {unit(Str("Alice")), unit(Str("Bob")), unit(Num("1"))}

InitVF ==
    /\ vfFactType \in {FactType(k, "loves") : k \in 0..MaxArity}
    /\ vfFn = [kind |-> "none", args |-> <<>>, n |-> 0]
    /\ vfSupplied = <<>>
    /\ vfVerbCalls = <<>>
    /\ vfHeld = NoHeld
    /\ vfResults = <<>>
    /\ smIdle
    /\ rmIdle
    /\ fnIdle
    /\ apiIdle

\* the verb function's invocations after the caller received `got`
VerbCallsAfter(got) ==
    IF got.kind = "invoked" THEN Append(vfVerbCalls, got.args) ELSE vfVerbCalls

\* makeVerbFact(FactType)
MakeVerbFact ==
    /\ vfFn.kind = "none"
    /\ vfFn' = makeVerbFact(vfFactType)
    /\ vfVerbCalls' = VerbCallsAfter(vfFn')
    /\ UNCHANGED <<vfFactType, vfSupplied, vfHeld, vfResults>>
    /\ UNCHANGED smVars
    /\ UNCHANGED rmVars
    /\ UNCHANGED fnVars
    /\ UNCHANGED apiVars

\* the caller applies the function it holds to one more argument
SupplyArg(arg) ==
    /\ vfFn.kind = "curried"
    /\ vfFn' = curry_arg(vfFn, arg)
    /\ vfSupplied' = Append(vfSupplied, arg)
    /\ vfVerbCalls' = VerbCallsAfter(vfFn')
    /\ UNCHANGED <<vfFactType, vfHeld, vfResults>>
    /\ UNCHANGED smVars
    /\ UNCHANGED rmVars
    /\ UNCHANGED fnVars
    /\ UNCHANGED apiVars

\* the caller keeps a reference p to the function it holds
KeepPartial ==
    /\ vfFn.kind = "curried"
    /\ ~vfHeld.kept
    /\ vfHeld' = [kept |-> TRUE, fn |-> vfFn, supplied |-> vfSupplied]
    /\ UNCHANGED <<vfFactType, vfFn, vfSupplied, vfVerbCalls, vfResults>>
    /\ UNCHANGED smVars
    /\ UNCHANGED rmVars
    /\ UNCHANGED fnVars
    /\ UNCHANGED apiVars

\* p(arg): the kept function is applied once more; the caller records what
\* the call returned
ApplyKept(arg) ==
    /\ vfHeld.kept
    /\ Len(vfResults) < MaxReuse
    /\ vfResults' = Append(vfResults,
                           [arg |-> arg, got |-> curry_arg(vfHeld.fn, arg)])
    /\ vfHeld' = [vfHeld EXCEPT !.fn = curry_kept(vfHeld.fn, arg)]
    /\ UNCHANGED <<vfFactType, vfFn, vfSupplied, vfVerbCalls>>
    /\ UNCHANGED smVars
    /\ UNCHANGED rmVars
    /\ UNCHANGED fnVars
    /\ UNCHANGED apiVars

NextVF ==
    \/ MakeVerbFact
    \/ \E arg \in VerbArgs : SupplyArg(arg)
    \/ KeepPartial
    \/ \E arg \in VerbArgs : ApplyKept(arg)

SpecVF == InitVF /\ [][NextVF]_vars

(***************************************************************************)
(* SpecRMAP: a list of facts is given; the embedder calls RMAP on it with  *)
(* some constraints and subtypes.                                          *)
(***************************************************************************)
\* Noun identifiers: a string and a number (such as the arity or the role
\* index of a meta-fact).
Ids == {Str("Alice"), Num("1")}

Nouns == {unit(id) : id \in Ids}

EntityVerbs == {unit(Str(v)) : v \in {"identifies", "references", "refers_to", "has"}}

NounLists == SeqsUpTo(Nouns, 2)

\* Every fact with an entity verb over the nouns; a fact whose verb is a
\* plain string and one whose verb is an entity with a number for
\* identifier; two facts about the string "1", which reads like the
\* number 1; two reference facts whose first noun is named like a
\* column of the generated tables; and a fact about the string
\* "__proto__", which names the prototype of an object.
FactPool ==
    {FactSymbol(verb, nouns) : verb \in EntityVerbs, nouns \in NounLists}
    \cup {FactSymbol(Str("has"), <<unit(Str("Alice")), unit(Num("1"))>>),
          FactSymbol(unit(Num("1")), <<unit(Str("Alice"))>>),
          FactSymbol(unit(Str("has")), <<unit(Str("1"))>>),
          FactSymbol(unit(Str("has")), <<unit(Str("1")), unit(Num("1"))>>),
          FactSymbol(unit(Str("identifies")), <<unit(Str("id")), unit(Str("Alice"))>>),
          FactSymbol(unit(Str("references")), <<unit(Str("created_at")), unit(Num("1"))>>),
          FactSymbol(unit(Str("has")), <<unit(Str("__proto__")), unit(Str("Alice"))>>)}

\* the fact objects of a list of facts: the i-th object has identity i
FactObjects(facts) == [i \in 1..Len(facts) |-> [ref |-> i] @@ facts[i]]

ConstraintLists ==
    {<<>>, <<Constraint(DEONTIC, "p"), Constraint(ALETHIC, "q")>>}

SubtypeMaps == {<<>>, [supertype \in {"Alice"} |-> <<"Bob">>]}

InitRMAP ==
    /\ rmFacts \in {FactObjects(facts) : facts \in SeqsUpTo(FactPool, MaxFacts)}
    /\ rmPc = "idle"
    /\ rmArgs = <<>>
    /\ rmOut = <<>>
    /\ rmJson = <<>>
    /\ smIdle
    /\ vfIdle
    /\ fnIdle
    /\ apiIdle

\* RMAP(facts, constraints, subtypes)
CallRMAP(constraints, subtypes) ==
    /\ rmPc = "idle"
    /\ rmArgs' = [constraints |-> constraints, subtypes |-> subtypes]
    /\ rmOut' = RMAP(rmFacts, constraints, subtypes)
    /\ rmPc' = IF rmOut'.threw THEN "threw" ELSE "returned"
    /\ UNCHANGED <<rmFacts, rmJson>>
    /\ UNCHANGED smVars
    /\ UNCHANGED vfVars
    /\ UNCHANGED fnVars
    /\ UNCHANGED apiVars

\* toJSON(result), on the result RMAP returned
CallToJSON ==
    /\ rmPc = "returned"
    /\ rmPc' = "rendered"
    /\ rmJson' = RMAP_toJSON(rmOut)
    /\ UNCHANGED <<rmFacts, rmArgs, rmOut>>
    /\ UNCHANGED smVars
    /\ UNCHANGED vfVars
    /\ UNCHANGED fnVars
    /\ UNCHANGED apiVars

NextRMAP ==
    \/ \E constraints \in ConstraintLists, subtypes \in SubtypeMaps :
           CallRMAP(constraints, subtypes)
    \/ CallToJSON

SpecRMAP == InitRMAP /\ [][NextRMAP]_vars

(***************************************************************************)
(* SpecList: the caller holds the arguments of one call of fold, nth,      *)
(* reorder or append, and makes the call.                                  *)
(***************************************************************************)
ElemDom == {unit(Str("Alice")), unit(Str("Bob"))}

Lists == SeqsUpTo(ElemDom, MaxLen)

\* fold(f)(acc)(list) with a caller-supplied f
FoldArgs == [op : {"fold"}, acc : ElemDom \cup {nil}, list : Lists]

\* nth(UINT(n))(list)
NthArgs == [op : {"nth"}, n : 0..(MaxLen + 1), list : Lists]

\* reorder(nouns)(order), order a list of UINT(i)
ReorderArgs ==
    [op : {"reorder"}, nouns : Lists, order : SeqsUpTo(0..MaxLen, MaxLen)]

\* append over three lists
AppendArgs == [op : {"append"}, a : Lists, b : Lists, c : Lists]

InitList ==
    /\ fnArgs \in FoldArgs \cup NthArgs \cup ReorderArgs \cup AppendArgs
    /\ fnPc = "idle"
    /\ fnOut = <<>>
    /\ smIdle
    /\ vfIdle
    /\ rmIdle
    /\ apiIdle

\* what an action of a library call leaves alone
FnFrame ==
    /\ UNCHANGED fnArgs
    /\ UNCHANGED smVars
    /\ UNCHANGED vfVars
    /\ UNCHANGED rmVars
    /\ UNCHANGED apiVars

CallFold ==
    /\ fnPc = "idle"
    /\ fnArgs.op = "fold"
    /\ fnOut' = fold(Closure("callback", nil), fnArgs.acc, fnArgs.list)
    /\ fnPc' = "returned"
    /\ FnFrame

CallNth ==
    /\ fnPc = "idle"
    /\ fnArgs.op = "nth"
    /\ fnOut' = nth(UINT(fnArgs.n), fnArgs.list)
    /\ fnPc' = "returned"
    /\ FnFrame

CallReorder ==
    /\ fnPc = "idle"
    /\ fnArgs.op = "reorder"
    /\ fnOut' = reorder(fnArgs.nouns,
                        [k \in 1..Len(fnArgs.order) |-> UINT(fnArgs.order[k])])
    /\ fnPc' = "returned"
    /\ FnFrame

CallAppend ==
    /\ fnPc = "idle"
    /\ fnArgs.op = "append"
    /\ fnOut' = [ab    |-> append(fnArgs.a, fnArgs.b),
                 ab_c  |-> append(append(fnArgs.a, fnArgs.b), fnArgs.c),
                 a_bc  |-> append(fnArgs.a, append(fnArgs.b, fnArgs.c)),
                 nil_a |-> append(nil, fnArgs.a),
                 a_nil |-> append(fnArgs.a, nil)]
    /\ fnPc' = "returned"
    /\ FnFrame

NextList ==
    \/ CallFold
    \/ CallNth
    \/ CallReorder
    \/ CallAppend

SpecList == InitList /\ [][NextList]_vars

(***************************************************************************)
(* SpecNum: the caller holds host integers, converts them with UINT and    *)
(* calls the numeral functions on the results.                             *)
(***************************************************************************)
\* UINT(k)
UintArgs == [op : {"uint"}, k : (0 - MaxNum)..MaxNum]

\* the comparisons of UINT(m) and UINT(n)
CompareArgs == [op : {"compare"}, m : 0..MaxNum, n : 0..MaxNum]

\* the arithmetic of UINT(m) and UINT(n)
ArithArgs == [op : {"arith"}, m : 0..MaxNum, n : 0..MaxNum]

InitNum ==
    /\ fnArgs \in UintArgs \cup CompareArgs \cup ArithArgs
    /\ fnPc = "idle"
    /\ fnOut = <<>>
    /\ smIdle
    /\ vfIdle
    /\ rmIdle
    /\ apiIdle

\* numeral(x => x + 1)(0): the number of times a numeral applies its
\* function argument
toNumber(numeral) == numeral.n

CallUint ==
    /\ fnPc = "idle"
    /\ fnArgs.op = "uint"
    /\ fnOut' = UINT(fnArgs.k)
    /\ fnPc' = "returned"
    /\ FnFrame

CallCompare ==
    /\ fnPc = "idle"
    /\ fnArgs.op = "compare"
    /\ LET m == UINT(fnArgs.m)
           n == UINT(fnArgs.n)
       IN  fnOut' = [eq    |-> EQ(m, n),
                     le    |-> LE(m, n),
                     le_nm |-> LE(n, m),
                     ge    |-> GE(m, n),
                     lt    |-> LT(m, n),
                     gt    |-> GT(m, n),
                     sub   |-> toNumber(SUB(m, n))]
    /\ fnPc' = "returned"
    /\ FnFrame

CallArith ==
    /\ fnPc = "idle"
    /\ fnArgs.op = "arith"
    /\ LET m == UINT(fnArgs.m)
           n == UINT(fnArgs.n)
       IN  fnOut' = [add  |-> toNumber(ADD(m, n)),
                     mult |-> toNumber(MULT(m, n)),
                     exp  |-> toNumber(EXP(m, n))]
    /\ fnPc' = "returned"
    /\ FnFrame

NextNum ==
    \/ CallUint
    \/ CallCompare
    \/ CallArith

SpecNum == InitNum /\ [][NextNum]_vars

(***************************************************************************)
(* SpecNoun: the caller wraps two identifiers with unit and compares the   *)
(* two nouns.                                                              *)
(***************************************************************************)
IdDom ==
    {Str("Alice"), Str("Bob"), Str("1"), Str("2"), Str(""),
     Num("1"), Num("2"), NaN}

\* equals(unit(x))(unit(y))
EqualsArgs == [op : {"equals"}, x : IdDom, y : IdDom]

\* get_id(unit(x))
GetIdArgs == [op : {"get_id"}, x : IdDom]

InitNoun ==
    /\ fnArgs \in EqualsArgs \cup GetIdArgs
    /\ fnPc = "idle"
    /\ fnOut = <<>>
    /\ smIdle
    /\ vfIdle
    /\ rmIdle
    /\ apiIdle

CallEquals ==
    /\ fnPc = "idle"
    /\ fnArgs.op = "equals"
    /\ fnOut' = equals(unit(fnArgs.x), unit(fnArgs.y))
    /\ fnPc' = "returned"
    /\ FnFrame

CallGetId ==
    /\ fnPc = "idle"
    /\ fnArgs.op = "get_id"
    /\ fnOut' = get_id(unit(fnArgs.x))
    /\ fnPc' = "returned"
    /\ FnFrame

NextNoun ==
    \/ CallEquals
    \/ CallGetId

SpecNoun == InitNoun /\ [][NextNoun]_vars

(***************************************************************************)
(* SpecJSON: the caller holds a fact and serializes it, or sends it        *)
(* through toJSON and fromJSON.                                            *)
(***************************************************************************)
JsonIds == {Str("Alice"), Str("Bob"), Num("1"), NaN}

JsonFacts ==
    {FactSymbol(unit(verb), nouns) :
        verb \in {Str("loves"), Str("has")},
        nouns \in SeqsUpTo({unit(id) : id \in JsonIds}, MaxLen)}

InitJSON ==
    /\ fnArgs \in [op : {"serialize", "roundtrip"}, fact : JsonFacts]
    /\ fnPc = "idle"
    /\ fnOut = <<>>
    /\ smIdle
    /\ vfIdle
    /\ rmIdle
    /\ apiIdle

CallSerialize ==
    /\ fnPc = "idle"
    /\ fnArgs.op = "serialize"
    /\ fnOut' = serialize(fnArgs.fact)
    /\ fnPc' = "returned"
    /\ FnFrame

CallRoundTrip ==
    /\ fnPc = "idle"
    /\ fnArgs.op = "roundtrip"
    /\ fnOut' = fromJSON(toJSON(fnArgs.fact))
    /\ fnPc' = "returned"
    /\ FnFrame

NextJSON ==
    \/ CallSerialize
    \/ CallRoundTrip

SpecJSON == InitJSON /\ [][NextJSON]_vars

(***************************************************************************)
(* SpecWalk: one call of fold, map, append, nth or run_machine, evaluated  *)
(* one recursive call at a time.  The recursion enters the cells of the    *)
(* list one after the other (the call on the tail is an argument of the    *)
(* application to the head, so it is evaluated first), reaches nil, and    *)
(* then returns through the cells from the last one to the first.          *)
(* fnOut is the evaluation so far: the cells entered (depth) and, on the   *)
(* way back, the value returned by the innermost finished call (acc).      *)
(***************************************************************************)
\* the machines run step by step: every event accepted, the next state is
\* the input
WalkMachines ==
    {StateMachine([guard |-> [x \in StateDom \X InputDom |-> TRUE],
                   compute_next |-> [x \in StateDom \X InputDom |-> Ok(x[2])]],
                  initial) : initial \in StateDom}

WalkArgs ==
    [op : {"fold"}, acc : ElemDom \cup {nil}, list : Lists]
    \cup [op : {"map"}, nouns : {<<unit(Str("Alice")), unit(Str("Bob"))>>},
          list : SeqsUpTo(0..MaxLen, MaxLen)]
    \cup [op : {"append"}, list : Lists, l2 : Lists]
    \cup [op : {"nth"}, n : 0..(MaxLen + 1), list : Lists]
    \cup [op : {"run_machine"}, machine : WalkMachines, list : Streams]

\* the function each operation hands to fold
walk_f(args) ==
    CASE args.op = "fold" -> Closure("callback", nil)
      [] args.op = "map" -> Closure("map_step", Closure("nth_of", args.nouns))
      [] args.op = "append" -> Closure("cons", nil)
      [] args.op = "run_machine" -> Closure("run_machine_step", args.machine.transition)
      [] args.op = "nth" -> Closure("nth", UINT(args.n))

\* the value the call on nil returns
walk_acc(args) ==
    CASE args.op = "fold" -> args.acc
      [] args.op = "map" -> nil
      [] args.op = "append" -> args.l2
      [] args.op = "run_machine" ->
            [threw |-> FALSE, val |-> args.machine.initial, applied |-> <<>>]
      [] args.op = "nth" -> nil

\* the list the recursion walks: map receives the order as numerals
walk_list(args) ==
    IF args.op = "map"
    THEN [k \in 1..Len(args.list) |-> UINT(args.list[k])]
    ELSE args.list

\* the list the call at this depth receives
walk_rest(list, depth) == SubSeq(list, depth + 1, Len(list))

\* the recursive call that is handed the list it received
enter_same(depth) == depth

\* the recursive call on the tail: one more cell entered
enter_tail(depth) == depth + 1

InitWalk ==
    /\ fnArgs \in WalkArgs
    /\ fnPc = "idle"
    /\ fnOut = <<>>
    /\ smIdle
    /\ vfIdle
    /\ rmIdle
    /\ apiIdle

\* the operation is called
WalkCall ==
    /\ fnPc = "idle"
    /\ fnOut' = [f |-> walk_f(fnArgs), list |-> walk_list(fnArgs),
                 depth |-> 0, acc |-> nil]
    /\ fnPc' = "descending"
    /\ FnFrame

\* the call received a cons cell: the call on its tail is evaluated
WalkDescend ==
    /\ fnPc = "descending"
    /\ ~ISEMPTY(walk_rest(fnOut.list, fnOut.depth))
    /\ fnOut' = [fnOut EXCEPT !.depth = enter_tail(fnOut.depth)]
    /\ UNCHANGED fnPc
    /\ FnFrame

\* the call received nil: nil applied to the selector calls nothing, and
\* the call returns the accumulator (nil for nth)
WalkAtEnd ==
    /\ fnPc = "descending"
    /\ ISEMPTY(walk_rest(fnOut.list, fnOut.depth))
    /\ fnOut' = [fnOut EXCEPT !.acc = walk_acc(fnArgs)]
    /\ fnPc' = "returning"
    /\ FnFrame

\* the call on the tail has returned: the cell's own call returns
\* f(head)(acc), and for nth the head when the cell's index is the target
WalkApply ==
    /\ fnPc = "returning"
    /\ fnOut.depth > 0
    /\ LET head == fnOut.list[fnOut.depth]
       IN  fnOut' = [fnOut EXCEPT
                !.depth = fnOut.depth - 1,
                !.acc = IF fnOut.f.fn = "nth"
                        THEN IF_(EQ(UINT(fnOut.depth - 1), fnOut.f.env),
                                 head, fnOut.acc)
                        ELSE Apply2(fnOut.f, head, fnOut.acc)]
    /\ UNCHANGED fnPc
    /\ FnFrame

\* the outermost call returns
WalkReturn ==
    /\ fnPc = "returning"
    /\ fnOut.depth = 0
    /\ fnPc' = "returned"
    /\ UNCHANGED fnOut
    /\ FnFrame

NextWalk ==
    \/ WalkCall
    \/ WalkDescend
    \/ WalkAtEnd
    \/ WalkApply
    \/ WalkReturn

\* a call that has been made keeps being evaluated
SpecWalk == InitWalk /\ [][NextWalk]_vars /\ WF_vars(NextWalk)

(***************************************************************************)
(* SpecAdapter: handlers wrapped by execSymbolsAdapter are invoked, and    *)
(* while they run they call methods of the tracked services they were      *)
(* handed.  Invocations overlap: a handler gives up control at every       *)
(* await, and the underlying functions settle in any order.                *)
(***************************************************************************)
Triggers == {"onUserSignup"}

\* the methods of the services handed to a handler: ai.researchCompany and
\* the nested api.apollo.search
TrackedMethods ==
    {[domain |-> "ai", method |-> "researchCompany"],
     [domain |-> "api.apollo", method |-> "search"]}

ArgObjects ==
    {<<[key |-> "company", value |-> Str("Acme")]>>,
     <<[key |-> "filter", value |-> NullProtoObject]>>}

\* the service calls a handler makes: a method and the arguments object
ServiceCalls ==
    {c \in [m : TrackedMethods, args : ArgObjects] :
        c.args[1].value = NullProtoObject => c.m.domain = "api.apollo"}

\* what an underlying function does: it returns a value or it fails
FnOutcomes == {Ok(Str("found")), Threw}

InitAdapter ==
    /\ adInv = <<>>
    /\ adCalls = <<>>
    /\ adClock = 0
    /\ trLog = <<>>
    /\ trFires = <<>>
    /\ evLog = <<>>
    /\ evCalls = <<>>
    /\ smIdle
    /\ vfIdle
    /\ rmIdle
    /\ fnIdle

AdFrame ==
    /\ UNCHANGED trVars
    /\ UNCHANGED evVars
    /\ UNCHANGED smVars
    /\ UNCHANGED vfVars
    /\ UNCHANGED rmVars
    /\ UNCHANGED fnVars

\* wrapped[trigger](params): runs up to the call of the handler
InvokeHandler(trigger) ==
    /\ Len(adInv) < MaxInvocations
    /\ LET started == execSymbolsAdapter(trigger, adClock)
       IN  adInv' = Append(adInv,
                       [trigger |-> trigger, pc |-> "running",
                        log |-> started.log, state |-> started.state,
                        handed |-> [state |-> started.state,
                                    logLen |-> Len(started.log)],
                        returned |-> <<>>])
    /\ adClock' = adClock + 1
    /\ UNCHANGED adCalls
    /\ AdFrame

\* the handler of invocation i calls a method of a tracked service
CallService(i, m, args) ==
    /\ i \in 1..Len(adInv)
    /\ adInv[i].pc = "running"
    /\ Len(adCalls) < MaxCalls
    /\ LET call == tracked_call(m.domain, m.method, args, adInv[i].log, adClock)
       IN  /\ adInv' = [adInv EXCEPT ![i].log = call.log]
           /\ adCalls' = Append(adCalls,
                            [inv |-> i, domain |-> m.domain, method |-> m.method,
                             time |-> adClock, logged |-> ~call.threw,
                             fnInvoked |-> call.fnInvoked, seen |-> call.seen,
                             pc |-> IF call.threw THEN "rejected" ELSE "pending",
                             result |-> Threw, returned |-> Threw])
    /\ adClock' = adClock + 1
    /\ AdFrame

\* the underlying function of call c settles, and `return await fn(args)`
\* settles the tracked call the same way
SettleCall(c, outcome) ==
    /\ c \in 1..Len(adCalls)
    /\ adCalls[c].pc = "pending"
    /\ adCalls' = [adCalls EXCEPT
            ![c].pc = IF outcome.threw THEN "rejected" ELSE "resolved",
            ![c].result = outcome,
            ![c].returned = outcome]
    /\ UNCHANGED <<adInv, adClock>>
    /\ AdFrame

\* the handler of invocation i settles: the wrapped handler returns
\* {result, symbolic: {state, log}}, or rejects when the handler failed
ReturnHandler(i, outcome) ==
    /\ i \in 1..Len(adInv)
    /\ adInv[i].pc = "running"
    /\ adInv' = [adInv EXCEPT
            ![i].pc = IF outcome.threw THEN "rejected" ELSE "returned",
            ![i].returned = IF outcome.threw THEN <<>>
                            ELSE [result |-> outcome.val,
                                  symbolic |-> [state |-> adInv[i].state,
                                                log |-> adInv[i].log]]]
    /\ UNCHANGED <<adCalls, adClock>>
    /\ AdFrame

NextAdapter ==
    \/ \E trigger \in Triggers : InvokeHandler(trigger)
    \/ \E i \in 1..MaxInvocations, c \in ServiceCalls : CallService(i, c.m, c.args)
    \/ \E c \in 1..MaxCalls, outcome \in FnOutcomes : SettleCall(c, outcome)
    \/ \E i \in 1..MaxInvocations, outcome \in FnOutcomes : ReturnHandler(i, outcome)

SpecAdapter == InitAdapter /\ [][NextAdapter]_vars

(***************************************************************************)
(* SpecTrigger: one trigger made by createTriggerImpl is fired with        *)
(* events; the actions it starts settle later, in any order.               *)
(***************************************************************************)
TriggerName == "userSignup"

\* the events handed to fire: one with email and name, one without email,
\* one with an empty name
FireEvents ==
    {[email |-> Str("john@example.com"), name |-> Str("John Doe")],
     [email |-> Undefined, name |-> Str("John Doe")],
     [email |-> Str("john@example.com"), name |-> Str("")]}

\* condition: (event) => !!(event.email && event.name)
condition(event) == Truthy(event.email) /\ Truthy(event.name)

InitTrigger ==
    /\ trLog = <<>>
    /\ trFires = <<>>
    /\ adInv = <<>>
    /\ adCalls = <<>>
    /\ adClock = 0
    /\ evLog = <<>>
    /\ evCalls = <<>>
    /\ smIdle
    /\ vfIdle
    /\ rmIdle
    /\ fnIdle

TrFrame ==
    /\ UNCHANGED <<adInv, adCalls>>
    /\ UNCHANGED evVars
    /\ UNCHANGED smVars
    /\ UNCHANGED vfVars
    /\ UNCHANGED rmVars
    /\ UNCHANGED fnVars

\* trigger.fire(event): runs up to the call of the action
Fire(event) ==
    /\ Len(trFires) < MaxFires
    /\ LET held == condition(event)
           fired == fire(TriggerName, held, trLog, adClock)
           wrapped == execSymbolsAdapter(TriggerName, adClock + 1)
       IN  /\ trLog' = fired.log
           /\ trFires' = Append(trFires,
                            [event |-> event, held |-> held,
                             before |-> trLog, after |-> fired.log,
                             actionInvoked |-> fired.actionInvoked,
                             seen |-> fired.seen,
                             symbolic |-> [state |-> wrapped.state, log |-> wrapped.log],
                             pc |-> IF held THEN "pending" ELSE "resolved",
                             returned |-> fired.returned])
    /\ adClock' = adClock + 2
    /\ TrFrame

\* the action started by fire k settles: fire returns what the wrapped
\* action returns, or rejects when the action failed
SettleAction(k, outcome) ==
    /\ k \in 1..Len(trFires)
    /\ trFires[k].pc = "pending"
    /\ trFires' = [trFires EXCEPT
            ![k].pc = IF outcome.threw THEN "rejected" ELSE "resolved",
            ![k].returned = IF outcome.threw THEN Threw
                            ELSE Ok([result |-> outcome.val,
                                     symbolic |-> trFires[k].symbolic])]
    /\ UNCHANGED <<trLog, adClock>>
    /\ TrFrame

NextTrigger ==
    \/ \E event \in FireEvents : Fire(event)
    \/ \E k \in 1..MaxFires, outcome \in FnOutcomes : SettleAction(k, outcome)

SpecTrigger == InitTrigger /\ [][NextTrigger]_vars

(***************************************************************************)
(* SpecTracker: one tracker made by createEventTrackerImpl; events are     *)
(* tracked and the log is queried.                                         *)
(***************************************************************************)
EventNames == {Str("UserRegistered"), Str("EmailSent")}

DataObjects ==
    {<<>>,
     <<[key |-> "email", value |-> Str("john@example.com")]>>,
     <<[key |-> "filter", value |-> NullProtoObject]>>}

InitTracker ==
    /\ evLog = <<>>
    /\ evCalls = <<>>
    /\ adInv = <<>>
    /\ adCalls = <<>>
    /\ adClock = 0
    /\ trLog = <<>>
    /\ trFires = <<>>
    /\ smIdle
    /\ vfIdle
    /\ rmIdle
    /\ fnIdle

EvFrame ==
    /\ UNCHANGED <<adInv, adCalls>>
    /\ UNCHANGED trVars
    /\ UNCHANGED smVars
    /\ UNCHANGED vfVars
    /\ UNCHANGED rmVars
    /\ UNCHANGED fnVars

\* tracker.track(eventName, data)
Track(eventName, data) ==
    /\ Len(evCalls) < MaxTracks
    /\ LET tracked == track(eventName, data, evLog, adClock)
       IN  /\ evLog' = tracked.eventLog
           /\ evCalls' = Append(evCalls,
                            [op |-> "track", name |-> eventName,
                             threw |-> tracked.threw, time |-> adClock,
                             log |-> tracked.eventLog, out |-> <<>>])
    /\ adClock' = adClock + 1
    /\ EvFrame

\* tracker.getEvents(eventName), and tracker.getEvents() for Undefined
GetEvents(eventName) ==
    /\ Len(evCalls) < MaxTracks
    /\ LET got == getEvents(eventName, evLog)
       IN  evCalls' = Append(evCalls,
                        [op |-> "getEvents", name |-> eventName,
                         threw |-> got.threw, time |-> adClock,
                         log |-> evLog,
                         out |-> IF got.threw THEN <<>> ELSE got.val])
    /\ UNCHANGED <<evLog, adClock>>
    /\ EvFrame

NextTracker ==
    \/ \E eventName \in EventNames, data \in DataObjects : Track(eventName, data)
    \/ \E eventName \in EventNames \cup {Undefined} : GetEvents(eventName)

SpecTracker == InitTracker /\ [][NextTracker]_vars

(***************************************************************************)
(* Claims about the state machine (SpecSM).                                *)
(***************************************************************************)
\* the transition applied to the events of s in stream order, head first,
\* starting from state: T(...T(T(state)(fact(e1)))(fact(e2))...)(fact(en))
RECURSIVE EarliestFirst(_, _, _)
EarliestFirst(transition, state, s) ==
    IF s = <<>> THEN state
    ELSE EarliestFirst(transition,
                       make_transition(transition.guard, transition.compute_next,
                                       state, get_fact(Head(s))).val,
                       Tail(s))

\* compute_next throws nowhere
Total(compute_next) == \A x \in DOMAIN compute_next : ~compute_next[x].threw

\* C1: run_machine applies the transition to the events in stream order,
\* earliest (head) event first: for a stream [e1,...,en] its result is
\* T(...T(T(s0)(fact(e1)))(fact(e2))...)(fact(en)), and s0 for the empty
\* stream.  (Stated for the transitions that never throw.)
C1_EarliestEventFirst ==
    (smPc = "ran" /\ Total(machine.transition.compute_next)) =>
        smRun.val = EarliestFirst(machine.transition, machine.initial, stream)

\* C2: transition(state)(input) equals compute_next(state)(input) when the
\* guard is TRUE and equals state, with no error, when the guard is FALSE;
\* unguarded(compute_next)(state)(input) always equals
\* compute_next(state)(input).
C2_GuardedTransition ==
    smApply.called =>
        LET guard        == machine.transition.guard
            compute_next == machine.transition.compute_next
            state        == smApply.state
            input        == smApply.input
        IN  /\ guard[state, input] => smApply.out = compute_next[state, input]
            /\ ~guard[state, input] => smApply.out = Ok(state)
            /\ unguarded(compute_next, state, input) = compute_next[state, input]

(***************************************************************************)
(* Claims about makeVerbFact (SpecVF).                                     *)
(***************************************************************************)
\* C3: for a FactType of arity k >= 0 the verb function is invoked exactly
\* once, only after exactly k arguments have been supplied one per call
\* (at once, with the empty sequence, when k = 0), with the arguments as a
\* sequence in call order; each of the first k-1 calls returns a function
\* and does not invoke the verb.
C3_VerbInvokedAfterArityArgs ==
    vfFn.kind # "none" =>
        /\ Len(vfSupplied) <= get_arity(vfFactType)
        /\ Len(vfSupplied) < get_arity(vfFactType) =>
              vfFn.kind = "curried" /\ vfVerbCalls = <<>>
        /\ Len(vfSupplied) = get_arity(vfFactType) =>
              vfFn.kind = "invoked" /\ vfVerbCalls = <<vfSupplied>>

\* the verb was invoked after two different arguments were supplied
C3_Witness ==
    /\ vfVerbCalls # <<>>
    /\ Len(vfSupplied) >= 2
    /\ vfSupplied[1] # vfSupplied[2]

(***************************************************************************)
(* Claims about RMAP (SpecRMAP).                                           *)
(***************************************************************************)
Returned == rmPc = "returned"

\* the identities of the fact objects of a list
Refs(facts) == {facts[i].ref : i \in 1..Len(facts)}

\* how many times a fact object occurs in a list
Occurrences(facts, fact) == Cardinality({k \in 1..Len(facts) : facts[k] = fact})

\* the fact's verb identifier is one of the three reference predicates
HasReferenceVerb(fact) ==
    /\ fact.verb.type = "function"
    /\ fact.verb.id.type = "string"
    /\ fact.verb.id.text \in {"identifies", "references", "refers_to"}

NounCount(fact) == Len(fact.nouns)

Mentions(fact, id) == \E j \in 1..Len(fact.nouns) : fact.nouns[j].id = id

NounIds(facts) ==
    UNION {{facts[i].nouns[j].id : j \in 1..Len(facts[i].nouns)} : i \in 1..Len(facts)}

\* the facts of a list that mention id, in the order of the list
FactsMentioning(facts, id) ==
    LET mentions(fact) == Mentions(fact, id) IN SelectSeq(facts, mentions)

\* the fact objects RMAP erased: the facts that reached the erase pass with
\* a reference verb
ErasedReferenceFacts ==
    {rmOut.remaining[i] : i \in {k \in 1..Len(rmOut.remaining) :
                                    HasReferenceVerb(rmOut.remaining[k])}}

\* C4: transformedFacts is the transformed unary facts followed by the
\* facts that survived reference erasure: every input fact that is not an
\* erased reference fact appears exactly once, no erased reference fact
\* appears, and its length is the input fact count minus the number of
\* erased reference facts.
C4_TransformedFactsAreSurvivors ==
    Returned =>
        /\ \A i \in 1..Len(rmFacts) :
              Occurrences(rmOut.transformedFacts, rmFacts[i]) =
                  IF rmFacts[i] \in ErasedReferenceFacts THEN 0 ELSE 1
        /\ Len(rmOut.transformedFacts) =
              Len(rmFacts) - Cardinality(ErasedReferenceFacts)
        /\ \E n \in 0..Len(rmOut.transformedFacts) :
              /\ \A k \in 1..n :
                    rmOut.transformedFacts[k] = rmOut.unaries[k].original
              /\ \A k \in (n + 1)..Len(rmOut.transformedFacts) :
                    /\ rmOut.transformedFacts[k] \notin ErasedReferenceFacts
                    /\ \E j \in 1..Len(rmOut.remaining) :
                          rmOut.transformedFacts[k] = rmOut.remaining[j]
              /\ n = Len(rmOut.unaries)

\* RMAP returned after erasing one of two facts
C4_Witness ==
    /\ Returned
    /\ Len(rmFacts) = 2
    /\ Cardinality(ErasedReferenceFacts) = 1
    /\ Len(rmOut.transformedFacts) = 1

\* C5: the first pass classifies a fact as unary exactly when its noun
\* sequence has length 1; the unary facts are set aside and passed through
\* unchanged into transformedFacts (no reference erasure, no part in table
\* building), and every other fact proceeds to the next pass.
C5_UnaryFactsSetAside ==
    Returned =>
        \A i \in 1..Len(rmFacts) :
            IF NounCount(rmFacts[i]) = 1
            THEN /\ \E k \in 1..Len(rmOut.unaries) :
                       rmOut.unaries[k].original = rmFacts[i]
                 /\ rmFacts[i] \notin Refs(rmOut.remaining)
                 /\ Occurrences(rmOut.transformedFacts, rmFacts[i]) = 1
                 /\ Occurrences(rmOut.remainingFacts, rmFacts[i]) = 0
            ELSE Occurrences(rmOut.remaining, rmFacts[i]) = 1

\* C6: a non-unary fact is removed by the erase-references pass if and only
\* if its verb identifier is one of identifies, references, refers_to; for
\* each removed fact the identifier of its first noun is recorded as a
\* black box; all other facts proceed in their original relative order.
C6_ReferenceFactsErased ==
    Returned =>
        /\ \A i \in 1..Len(rmOut.remaining) :
              LET fact == rmOut.remaining[i]
                  removed == Occurrences(rmOut.factsWithoutReferences, fact) = 0
              IN  NounCount(fact) # 1 =>
                     /\ removed <=> HasReferenceVerb(fact)
                     /\ ~removed => Occurrences(rmOut.factsWithoutReferences, fact) = 1
                     /\ (removed /\ NounCount(fact) > 0) =>
                            \E k \in 1..Len(rmOut.blackBoxes) :
                                rmOut.blackBoxes[k] = fact.nouns[1].id
        /\ \A j, k \in 1..Len(rmOut.factsWithoutReferences) :
              j < k => rmOut.factsWithoutReferences[j].ref
                           < rmOut.factsWithoutReferences[k].ref

\* RMAP removed a binary reference fact whose two nouns differ and kept a
\* fact that came before it and one that came after it
C6_Witness ==
    /\ Returned
    /\ Len(rmFacts) >= 2
    /\ \E i \in 1..Len(rmFacts) :
          /\ HasReferenceVerb(rmFacts[i])
          /\ NounCount(rmFacts[i]) = 2
          /\ rmFacts[i].nouns[1] # rmFacts[i].nouns[2]
          /\ Occurrences(rmOut.factsWithoutReferences, rmFacts[i]) = 0
    /\ Len(rmOut.factsWithoutReferences) >= 1

\* the positions of the tables of the schema that are named id
TablesNamed(id) ==
    {k \in 1..Len(rmOut.schema.tables) : rmOut.schema.tables[k].name = id}

\* C7: for the facts that reach table building, schema.tables contains
\* exactly one table per distinct noun identifier (a string or a number):
\* it is named by that identifier, keyed `<identifier>_id`, and its
\* functionalRoles are exactly the facts mentioning the identifier; no two
\* tables stand for the same identifier.
C7_OneTablePerIdentifier ==
    Returned =>
        LET tables == rmOut.schema.tables
            ids == NounIds(rmOut.remainingFacts)
        IN  /\ \A id \in ids :
                  /\ Cardinality(TablesNamed(id)) = 1
                  /\ \A k \in TablesNamed(id) :
                        /\ tables[k].key = Str(id.text \o "_id")
                        /\ "functionalRoles" \in DOMAIN tables[k]
                        /\ tables[k].functionalRoles =
                               FactsMentioning(rmOut.remainingFacts, id)
            /\ \A k \in 1..Len(tables) : tables[k].name \in ids
            /\ \A j, k \in 1..Len(tables) : j # k => tables[j].key # tables[k].key

SurvivingFacts ==
    LET survives(fact) == ~HasReferenceVerb(fact) IN SelectSeq(rmFacts, survives)

C9_NeverRaises == rmPc # "threw"

\* C10: the result does not depend on the constraints or subtypes
\* arguments (it is the result of the call with no constraint and no
\* subtype); the compound-uniqueness pass yields no table and passes every
\* fact through unchanged; relationships and indices are empty.
C10_ConstraintsIgnored ==
    rmPc # "idle" =>
        /\ rmOut = RMAP(rmFacts, <<>>, <<>>)
        /\ rmOut.factTables = <<>>
        /\ rmOut.remainingFacts = rmOut.factsWithoutReferences
        /\ rmOut.schema.relationships = <<>>
        /\ rmOut.schema.indices = <<>>

\* RMAP returned tables from a call with an alethic constraint, a deontic
\* constraint and a subtype map
C10_Witness ==
    /\ Returned
    /\ \E i \in 1..Len(rmArgs.constraints) :
          get_modality(rmArgs.constraints[i]) = ALETHIC
    /\ \E i \in 1..Len(rmArgs.constraints) :
          get_modality(rmArgs.constraints[i]) = DEONTIC
    /\ rmArgs.subtypes # <<>>
    /\ Len(rmOut.schema.tables) >= 2
    /\ \E i \in 1..Len(rmFacts) : rmFacts[i].verb = unit(Str("has"))

\* the tables handed to the unpack pass
TablesBeforeUnpack ==
    rmOut.factTables \o rmOut.objectTables \o rmOut.independentTables

\* name is one of the recorded black-box identifiers
IsBlackBox(name) ==
    \E k \in 1..Len(rmOut.blackBoxes) : rmOut.blackBoxes[k] = name

\* C11: in the final schema a table column is replaced by a single column
\* named `<name>_id` if and only if its name equals a recorded black-box
\* identifier; every other column, and every table's name and key, is left
\* unchanged by the unpack pass.
C11_BlackBoxColumnsUnpacked ==
    Returned =>
        LET before == TablesBeforeUnpack
            after == rmOut.schema.tables
        IN  /\ Len(after) = Len(before)
            /\ \A i \in 1..Len(before) :
                  /\ after[i].name = before[i].name
                  /\ after[i].key = before[i].key
                  /\ DOMAIN after[i] = DOMAIN before[i]
                  /\ Len(after[i].columns) = Len(before[i].columns)
                  /\ \A c \in 1..Len(before[i].columns) :
                        LET col == before[i].columns[c]
                        IN  IF IsBlackBox(col.name)
                            THEN after[i].columns[c] =
                                     [name |-> Str(col.name.text \o "_id"),
                                      type |-> "string"]
                            ELSE after[i].columns[c] = col

\* RMAP returned a table one column of which was replaced and another kept
C11_Witness ==
    /\ Returned
    /\ \E i \in 1..Len(rmOut.schema.tables) :
          LET before == TablesBeforeUnpack[i].columns
              after == rmOut.schema.tables[i].columns
          IN  /\ Len(before) = 2
              /\ \E c, d \in 1..2 :
                    /\ IsBlackBox(before[c].name)
                    /\ after[c] # before[c]
                    /\ ~IsBlackBox(before[d].name)
                    /\ after[d] = before[d]

(***************************************************************************)
(* Claims about the list functions (SpecList).                             *)
(***************************************************************************)
FnReturned(op) == fnPc = "returned" /\ fnArgs.op = op

\* the term f(x_k)(f(x_k+1)(...f(x_n)(acc)...)) over L = [x_1, ..., x_n]
RECURSIVE RightNested(_, _, _)
RightNested(L, acc, k) ==
    IF k > Len(L) THEN acc
    ELSE [fn |-> "f", head |-> L[k], acc |-> RightNested(L, acc, k + 1)]

\* C12: fold is right-associative: fold(f)(acc)([x1,...,xn]) equals
\* f(x1)(f(x2)(...f(xn)(acc)...)), and fold(f)(acc)(nil) equals acc.
C12_FoldRightAssociative ==
    FnReturned("fold") =>
        /\ fnOut = RightNested(fnArgs.list, fnArgs.acc, 1)
        /\ fnArgs.list = nil => fnOut = fnArgs.acc

\* fold returned over a list of two different elements
C12_Witness ==
    /\ FnReturned("fold")
    /\ Len(fnArgs.list) = 2
    /\ fnArgs.list[1] # fnArgs.list[2]
    /\ fnOut.head = fnArgs.list[1]

\* C13: nth(n)(seq) returns the element at zero-based position n when
\* n < length(seq), and returns nil when n >= length(seq), the empty
\* sequence included.
C13_NthZeroBasedOrNil ==
    FnReturned("nth") =>
        fnOut = IF fnArgs.n < Len(fnArgs.list)
                THEN fnArgs.list[fnArgs.n + 1]
                ELSE nil

\* nth returned the second of two different elements
C13_Witness ==
    /\ FnReturned("nth")
    /\ fnArgs.n = 1
    /\ Len(fnArgs.list) = 2
    /\ fnArgs.list[1] # fnArgs.list[2]
    /\ fnOut = fnArgs.list[2]

\* C14: reorder(nouns)(order) returns a sequence of the length of order
\* whose k-th element is the noun at position order[k]; an index that is
\* >= length(nouns) yields nil at that position.
C14_ReorderByOrder ==
    FnReturned("reorder") =>
        /\ Len(fnOut) = Len(fnArgs.order)
        /\ \A k \in 1..Len(fnArgs.order) :
              fnOut[k] = IF fnArgs.order[k] < Len(fnArgs.nouns)
                         THEN fnArgs.nouns[fnArgs.order[k] + 1]
                         ELSE nil

\* reorder returned [Bob, Alice] for the order [1, 0] over [Alice, Bob]
C14_Witness ==
    /\ FnReturned("reorder")
    /\ fnArgs.nouns = <<unit(Str("Alice")), unit(Str("Bob"))>>
    /\ fnArgs.order = <<1, 0>>
    /\ fnOut = <<unit(Str("Bob")), unit(Str("Alice"))>>

\* C19: append(a)(b) is a's elements followed by b's elements, each in
\* original order; append(append(a)(b))(c) and append(a)(append(b)(c))
\* have the same content; nil is a left and a right identity of append.
C19_AppendConcatenates ==
    FnReturned("append") =>
        /\ fnOut.ab = fnArgs.a \o fnArgs.b
        /\ fnOut.ab_c = fnOut.a_bc
        /\ fnOut.ab_c = fnArgs.a \o fnArgs.b \o fnArgs.c
        /\ fnOut.nil_a = fnArgs.a
        /\ fnOut.a_nil = fnArgs.a

\* append returned over three non-empty lists, the first of two different
\* elements
C19_Witness ==
    /\ FnReturned("append")
    /\ Len(fnArgs.a) = 2
    /\ fnArgs.a[1] # fnArgs.a[2]
    /\ fnArgs.b # nil
    /\ fnArgs.c # nil
    /\ Len(fnOut.ab_c) = 2 + Len(fnArgs.b) + Len(fnArgs.c)

(***************************************************************************)
(* Claims about the numerals (SpecNum).                                    *)
(***************************************************************************)
\* C16: EQ(m)(n) is TRUE iff LE(m)(n) and LE(n)(m) are both TRUE iff m and
\* n represent the same integer; LE, GE, LT, GT agree with <=, >=, <, > on
\* the represented integers (subtraction being truncated at zero), so
\* exactly one of LT, EQ, GT holds for each pair.
C16_ComparisonsAgreeWithIntegers ==
    FnReturned("compare") =>
        LET m == fnArgs.m
            n == fnArgs.n
        IN  /\ fnOut.eq <=> (fnOut.le /\ fnOut.le_nm)
            /\ fnOut.eq <=> (m = n)
            /\ fnOut.le <=> (m <= n)
            /\ fnOut.ge <=> (m >= n)
            /\ fnOut.lt <=> (m < n)
            /\ fnOut.gt <=> (m > n)
            /\ fnOut.sub = IF m >= n THEN m - n ELSE 0
            /\ Cardinality({c \in {"lt", "eq", "gt"} : fnOut[c]}) = 1

\* the comparisons returned for a smaller and a larger positive integer
C16_Witness ==
    /\ FnReturned("compare")
    /\ 0 < fnArgs.m
    /\ fnArgs.m < fnArgs.n
    /\ fnOut.lt
    /\ ~fnOut.eq

\* the numeral SUCC(SUCC(...(ZERO))) with k applications of SUCC
RECURSIVE SuccTimes(_)
SuccTimes(k) == IF k = 0 THEN ZERO ELSE SUCC(SuccTimes(k - 1))

\* C17: UINT(n) represents max(n, 0): for every integer n < 0, UINT(n)
\* equals ZERO, and for every integer n >= 0, UINT(n) applies its function
\* argument exactly n times (it is SUCC applied n times to ZERO).
C17_UintClampsNegatives ==
    FnReturned("uint") =>
        /\ fnArgs.k < 0 => fnOut = ZERO
        /\ fnArgs.k >= 0 => /\ toNumber(fnOut) = fnArgs.k
                            /\ fnOut = SuccTimes(fnArgs.k)

\* UINT returned for a negative integer
C17_Witness ==
    /\ FnReturned("uint")
    /\ fnArgs.k < -1
    /\ fnOut = ZERO

\* m to the power n, with 0^0 = 1
RECURSIVE Power(_, _)
Power(m, n) == IF n = 0 THEN 1 ELSE m * Power(m, n - 1)

\* C18: ADD(m)(n), MULT(m)(n) and EXP(m)(n) represent m+n, m*n and m^n,
\* including EXP(ZERO)(ZERO) = 1 and EXP(ZERO)(n) = 0 for n > 0.
C18_ArithmeticAgreesWithIntegers ==
    FnReturned("arith") =>
        /\ fnOut.add = fnArgs.m + fnArgs.n
        /\ fnOut.mult = fnArgs.m * fnArgs.n
        /\ fnOut.exp = Power(fnArgs.m, fnArgs.n)
        /\ (fnArgs.m = 0 /\ fnArgs.n = 0) => fnOut.exp = 1
        /\ (fnArgs.m = 0 /\ fnArgs.n > 0) => fnOut.exp = 0

\* the arithmetic returned for 2 and 3: 5, 6 and 8
C18_Witness ==
    /\ FnReturned("arith")
    /\ fnArgs.m = 2
    /\ fnArgs.n = 3
    /\ fnOut = [add |-> 5, mult |-> 6, exp |-> 8]

(***************************************************************************)
(* Claims about nouns (SpecNoun).                                          *)
(***************************************************************************)
\* host-level equality of two identifiers: the same type and the same
\* value, NaN being equal to nothing
HostEqual(x, y) == x = y /\ x # Num("NaN")

\* C20: equals(a)(b) is TRUE if and only if get_id(a) is equal, by
\* host-level equality, to get_id(b): two wrappers created by unit with
\* equal ids are equal, wrappers with different ids are not, and
\* get_id(unit(x)) = x for every id x.
C20_EqualsComparesIds ==
    /\ FnReturned("equals") => (fnOut <=> HostEqual(fnArgs.x, fnArgs.y))
    /\ FnReturned("get_id") => fnOut = fnArgs.x

\* equals returned FALSE for the string "1" and the number 1
C20_Witness ==
    /\ FnReturned("equals")
    /\ fnArgs.x = Str("1")
    /\ fnArgs.y = Num("1")
    /\ fnOut = FALSE

(***************************************************************************)
(* Claims about serialization (SpecJSON).                                  *)
(***************************************************************************)
\* C15: serialize, and the toJSON/fromJSON round trip, applied to any
\* FactSymbol (entity verb; finite sequence of entity nouns, the empty
\* sequence included) yields a record of type 'FactSymbol' that carries the
\* verb identifier and the noun identifiers as plain values in the fact's
\* noun order.
C15_FactSymbolSerialized ==
    (FnReturned("serialize") \/ FnReturned("roundtrip")) =>
        /\ fnOut.type = Str("FactSymbol")
        /\ fnOut.verb_symbol = fnArgs.fact.verb.id
        /\ fnOut.nouns = [i \in 1..Len(fnArgs.fact.nouns) |-> fnArgs.fact.nouns[i].id]

(***************************************************************************)
(* Claims about the independent-object pass (SpecRMAP).                    *)
(***************************************************************************)
\* C29: when every noun identifier is a string the independent-object
\* pass emits no table: no table of the output has a created_at column and
\* every table carries a functionalRoles list.
C29_NoIndependentTableForStrings ==
    (Returned /\ \A id \in NounIds(rmFacts) : typeof(id) = "string") =>
        /\ rmOut.independentTables = <<>>
        /\ \A t \in 1..Len(rmOut.schema.tables) :
              LET table == rmOut.schema.tables[t]
              IN  /\ "functionalRoles" \in DOMAIN table
                  /\ \A c \in 1..Len(table.columns) :
                        table.columns[c].name # Str("created_at")

(***************************************************************************)
(* Claims about RMAP's toJSON (SpecRMAP).                                  *)
(***************************************************************************)
\* C26: toJSON renders every transformed fact as the record {verb, nouns}
\* of the fact's verb identifier and of its noun identifiers, in the order
\* of the fact's noun sequence.
C26_FactsRenderedInNounOrder ==
    rmPc = "rendered" =>
        /\ Len(rmJson.transformedFacts) = Len(rmOut.transformedFacts)
        /\ \A i \in 1..Len(rmOut.transformedFacts) :
              LET fact == rmOut.transformedFacts[i]
              IN  rmJson.transformedFacts[i]
                    = [verb |-> get_id(fact.verb),
                       nouns |-> [j \in 1..Len(fact.nouns) |-> get_id(fact.nouns[j])]]

(***************************************************************************)
(* Claims about kept partial applications (SpecVF).                        *)
(***************************************************************************)
\* C28: a partial application p of makeVerbFact is not changed by being
\* applied: every call p(b), in any order and any number of times, gets
\* the arguments p was given followed by b, and the verb function is
\* invoked once per call that completes the arity (for arity 2 and
\* p = makeVerbFact(ft)(a): nouns [a, b]).
C28_PartialApplicationsReusable ==
    vfHeld.kept =>
        /\ vfHeld.fn.kind = "curried"
        /\ vfHeld.fn.args = vfHeld.supplied
        /\ \A k \in 1..Len(vfResults) :
              LET r == vfResults[k]
              IN  /\ r.got.args = Append(vfHeld.supplied, r.arg)
                  /\ (r.got.kind = "invoked")
                        = (Len(r.got.args) = get_arity(vfFactType))

\* p = makeVerbFact(ft)(a) of arity 2 was applied to b, to c and to b again
C28_Witness ==
    /\ vfHeld.kept
    /\ get_arity(vfFactType) = 2
    /\ Len(vfHeld.supplied) = 1
    /\ Len(vfResults) = 3
    /\ vfResults[1].arg # vfResults[2].arg
    /\ vfResults[3].arg = vfResults[1].arg
    /\ \A k \in 1..3 : vfResults[k].got.kind = "invoked"

(***************************************************************************)
(* Claims about guarded evaluation (SpecSM).                               *)
(***************************************************************************)
\* C27: compute_next(state)(input) is evaluated only when
\* guard(state)(input) is TRUE, so a compute_next that fails outside its
\* guard makes neither the transition nor run_machine fail.
C27_ComputeOnlyUnderGuard ==
    LET guard        == machine.transition.guard
        compute_next == machine.transition.compute_next
        failsOnlyOutsideGuard ==
            \A x \in StateDom \X InputDom : guard[x] => ~compute_next[x].threw
    IN  /\ (smApply.called /\ ~guard[smApply.state, smApply.input])
               => ~smApply.out.threw
        /\ (smRun.called /\ failsOnlyOutsideGuard) => ~smRun.threw

(***************************************************************************)
(* Claims about tracked services and the handler adapter (SpecAdapter).    *)
(***************************************************************************)
\* the tracked service calls started by invocation i, in start order
CallsOf(i) == LET mine(c) == c.inv = i IN SelectSeq(adCalls, mine)

\* the times of the events of a log: no two events carry the same time
EventTimes(log) == {get_time(log[k]) : k \in 1..Len(log)}

\* C22: every call of a tracked method appends exactly one event, with the
\* fact verb <domain>.<method>, before the underlying function is invoked,
\* whether or not the function then fails, and returns the underlying
\* result; the log holds the events in the order the calls were started.
C22_OneEventPerCallInStartOrder ==
    \A i \in 1..Len(adInv) :
        LET mine == CallsOf(i)
            log == adInv[i].log
        IN  /\ Len(log) = 1 + Len(mine)
            /\ \A k \in 1..Len(mine) :
                  /\ get_fact(log[k + 1]).verb
                        = Str(mine[k].domain \o "." \o mine[k].method)
                  /\ get_time(log[k + 1]) = mine[k].time
                  /\ mine[k].fnInvoked
                  /\ mine[k].seen = k + 1
                  /\ mine[k].pc # "pending" => mine[k].returned = mine[k].result

\* C23: every invocation of a wrapped handler has a log of its own that
\* starts with the trigger event (fact verb = trigger name), recorded
\* before the handler runs; no event of one invocation is in the log of
\* another, also when invocations overlap; and the returned symbolic.log
\* is the trigger event followed by one event per tracked service call of
\* the invocation.
C23_OneLogPerInvocation ==
    \A i \in 1..Len(adInv) :
        LET inv == adInv[i]
            mine == CallsOf(i)
        IN  /\ get_fact(inv.log[1]).verb = Str(inv.trigger)
            /\ inv.handed.logLen = 1
            /\ \A j \in 1..Len(adInv) :
                  j # i => EventTimes(inv.log) \cap EventTimes(adInv[j].log) = {}
            /\ \A c \in 1..Len(adCalls) :
                  adCalls[c].inv # i => adCalls[c].time \notin EventTimes(inv.log)
            /\ inv.pc = "returned" =>
                  /\ Len(inv.returned.symbolic.log) = 1 + Len(mine)
                  /\ \A k \in 1..Len(mine) :
                        get_time(inv.returned.symbolic.log[k + 1]) = mine[k].time

HeldFires == LET held(f) == f.held IN SelectSeq(trFires, held)

\* C24: fire(event) with the condition false returns
\* {triggered: false, reason: 'Condition not met'}, invokes no action and
\* leaves the log unchanged; with the condition true it appends exactly
\* one trigger.<name> event before the action executes.  Over any sequence
\* of fires the log only grows, by one entry per fire whose condition held.
C24_FireRecordsWhenConditionHolds ==
    /\ \A k \in 1..Len(trFires) :
          LET f == trFires[k]
          IN  /\ ~f.held =>
                    /\ f.returned = Ok([triggered |-> FALSE,
                                        reason |-> "Condition not met"])
                    /\ ~f.actionInvoked
                    /\ f.after = f.before
              /\ f.held =>
                    /\ Len(f.after) = Len(f.before) + 1
                    /\ SubSeq(f.after, 1, Len(f.before)) = f.before
                    /\ get_fact(f.after[Len(f.after)]).verb
                          = Str("trigger." \o TriggerName)
                    /\ f.actionInvoked
                    /\ f.seen = Len(f.after)
              /\ SubSeq(trLog, 1, Len(f.after)) = f.after
              /\ k > 1 => f.before = trFires[k - 1].after
    /\ Len(trLog) = Len(HeldFires)

\* three fires, the second with the condition false, and the action of
\* the first failed
C24_Witness ==
    /\ Len(trFires) = 3
    /\ trFires[1].held
    /\ ~trFires[2].held
    /\ trFires[3].held
    /\ trFires[1].pc = "rejected"
    /\ Len(trLog) = 2

(***************************************************************************)
(* Claims about event trackers (SpecTracker).                              *)
(***************************************************************************)
\* the track calls so far
TrackCalls == LET isTrack(c) == c.op = "track" IN SelectSeq(evCalls, isTrack)

\* C25: after any sequence of track calls the log holds one event per
\* call in call order; getEvents(name) returns, without raising, the
\* logged events whose fact verb equals name, in log order, and
\* getEvents() returns the whole log.
C25_LogAndGetEvents ==
    /\ Len(evLog) = Len(TrackCalls)
    /\ \A k \in 1..Len(TrackCalls) :
          /\ get_time(evLog[k]) = TrackCalls[k].time
          /\ get_fact(evLog[k]).verb = TrackCalls[k].name
    /\ \A k \in 1..Len(evCalls) :
          LET c == evCalls[k]
              named(e) == get_fact(e).verb = c.name
          IN  c.op = "getEvents" =>
                 /\ ~c.threw
                 /\ c.out = IF c.name = Undefined THEN c.log
                            ELSE SelectSeq(c.log, named)

(***************************************************************************)
(* Claims about termination (SpecWalk).                                    *)
(***************************************************************************)
\* C21: fold, map, append, nth and run_machine terminate on every finite
\* sequence: every call eventually returns, nth with an index beyond the
\* end of the sequence and fold over the empty sequence included.
C21_CallsTerminate == <>(fnPc = "returned")

\* nth returned nil for an index beyond the end of a two-element list,
\* after walking the whole list
C21_Witness ==
    /\ FnReturned("nth")
    /\ Len(fnArgs.list) = 2
    /\ fnArgs.n > 2
    /\ fnOut.acc = nil
    /\ fnOut.acc = nth(UINT(fnArgs.n), fnArgs.list)

=============================================================================
